---- MODULE Spec2Model ----
(***************************************************************************)
(* Model of the game-state core of Tetris-Overlay (source/main.cpp):       *)
(* the piece/board model, rotation with wall kicks, the gravity and        *)
(* lock-delay timing of TetrisGui::update, the input dispatch of           *)
(* TetrisGui::handleInput, placement, line clearing, scoring and spawn.    *)
(*                                                                         *)
(* Time.  The source keeps steady_clock time points and only ever uses     *)
(* differences "now - timestamp".  The model keeps each difference, in     *)
(* milliseconds, instead of the time point, and saturates it at a value no *)
(* smaller than every threshold the difference is compared with.           *)
(***************************************************************************)
EXTENDS Integers, Sequences, FiniteSets, TLC

\* ------------------------------------------------------------------ data
BOARD_WIDTH == 10
BOARD_HEIGHT == 20
maxLockDelayMoves == 15
lockDelayTime == 500
lockDelayExtension == 500
LINES_PER_LEVEL == 10
DAS == 300
ARR == 40

\* Saturation value of the millisecond accumulators fallCounter,
\* lockDelayCounter and now - timeSinceLastFrame: the largest value they are
\* compared with (fallSpeeds[0]).
SatMs == 800

Sat(ms) == IF ms > SatMs THEN SatMs ELSE ms

Max(a, b) == IF a >= b THEN a ELSE b

Min(a, b) == IF a <= b THEN a ELSE b

\* F of the value of e, with e evaluated once: one statement after another.
Bind(e, F(_)) == CHOOSE r \in {F(v) : v \in {e}} : TRUE

\* tetriminoShapes[type][index], rows of 16 cells; TLA+ tuples count from 1.
tetriminoShapes ==
    << << 0,0,0,0,  1,1,1,1,  0,0,0,0,  0,0,0,0 >>,
       << 1,0,0,0,  1,1,1,0,  0,0,0,0,  0,0,0,0 >>,
       << 0,0,1,0,  1,1,1,0,  0,0,0,0,  0,0,0,0 >>,
       << 1,1,0,0,  1,1,0,0,  0,0,0,0,  0,0,0,0 >>,
       << 0,1,1,0,  1,1,0,0,  0,0,0,0,  0,0,0,0 >>,
       << 0,1,0,0,  1,1,1,0,  0,0,0,0,  0,0,0,0 >>,
       << 1,1,0,0,  0,1,1,0,  0,0,0,0,  0,0,0,0 >> >>

\* rotationCenters: std::pair<int,int>, so the I piece's {1.5f,1.5f} is {1,1}.
rotationCenters == [t \in 0..6 |-> <<1, 1>>]

wallKicksI ==
    << << <<0,0>>, <<-2,0>>, <<1,0>>,  <<-2,-1>>, <<1,2>>   >>,
       << <<0,0>>, <<-1,0>>, <<2,0>>,  <<-1,2>>,  <<2,-1>>  >>,
       << <<0,0>>, <<2,0>>,  <<-1,0>>, <<2,1>>,   <<-1,-2>> >>,
       << <<0,0>>, <<1,0>>,  <<-2,0>>, <<1,-2>>,  <<-2,1>>  >> >>

wallKicksJLSTZ ==
    << << <<0,0>>, <<-1,0>>, <<-1,-1>>, <<0,2>>,  <<-1,2>>  >>,
       << <<0,0>>, <<1,0>>,  <<1,1>>,   <<0,-2>>, <<1,-2>>  >>,
       << <<0,0>>, <<1,0>>,  <<1,-1>>,  <<0,2>>,  <<1,2>>   >>,
       << <<0,0>>, <<-1,0>>, <<-1,1>>,  <<0,-2>>, <<-1,-2>> >> >>

extraKicksI ==
    << <<0,-1>>, <<0,-2>>, <<0,-3>>, <<0,1>>,
       <<1,0>>, <<-1,0>>, <<2,0>>, <<-2,0>>,
       <<1,-1>>, <<-1,-1>>, <<0,2>>,
       <<1,1>>, <<-1,1>>, <<2,-1>>, <<-2,-1>>, <<1,-2>> >>

extraKicksJLSTZ ==
    << <<0,1>>, <<0,-1>>, <<1,0>>, <<-1,0>>,
       <<0,2>>, <<2,0>>, <<-2,0>>,
       <<1,1>>, <<-1,1>>, <<1,-1>>, <<-1,-1>>,
       <<0,-2>>, <<2,1>>, <<-2,1>>, <<2,-1>>, <<-2,-1>> >>

fallSpeeds ==
    << 800, 720, 630, 550, 470, 380, 300, 220, 130, 100,
       80, 80, 80, 80, 70, 70, 70, 50, 50, 50,
       30, 30, 30, 20, 20, 20, 20, 20, 20, 16 >>

\* ------------------------------------------------------- pure functions
\* getRotatedIndex with the O piece sent through the general case.
getRotatedIndexTurningO(type, i, j, rotation) ==
    IF i < 0 \/ i >= 4 \/ j < 0 \/ j >= 4 THEN -1
    ELSE IF type = 0 THEN
        CASE rotation = 0 -> i * 4 + j
          [] rotation = 1 -> (3 - i) + j * 4
          [] rotation = 2 -> (3 - j) + (3 - i) * 4
          [] OTHER -> i + (3 - j) * 4
    ELSE LET relX == j - 1
             relY == i - 1
             finalX == (CASE rotation = 0 -> relX [] rotation = 1 -> -relY
                          [] rotation = 2 -> -relX [] OTHER -> relY) + 1
             finalY == (CASE rotation = 0 -> relY [] rotation = 1 -> relX
                          [] rotation = 2 -> -relY [] OTHER -> -relX) + 1
         IN  IF finalX < 0 \/ finalX >= 4 \/ finalY < 0 \/ finalY >= 4 THEN -1
             ELSE finalY * 4 + finalX

\* getRotatedIndex(type, i, j, rotation): index into the 16-cell mask, or -1.
getRotatedIndex(type, i, j, rotation) ==
    LET Final(finalX, finalY) ==
            IF finalX < 0 \/ finalX >= 4 \/ finalY < 0 \/ finalY >= 4 THEN -1
            ELSE finalY * 4 + finalX
        Turned(relX, relY, centerX, centerY) ==
            Final((CASE rotation = 0 -> relX
                     [] rotation = 1 -> -relY
                     [] rotation = 2 -> -relX
                     [] OTHER -> relY) + centerX,
                  (CASE rotation = 0 -> relY
                     [] rotation = 1 -> relX
                     [] rotation = 2 -> -relY
                     [] OTHER -> -relX) + centerY)
    IN  IF i < 0 \/ i >= 4 \/ j < 0 \/ j >= 4 THEN -1
        ELSE IF type = 0 THEN
            CASE rotation = 0 -> i * 4 + j
              [] rotation = 1 -> (3 - i) + j * 4
              [] rotation = 2 -> (3 - j) + (3 - i) * 4
              [] rotation = 3 -> i + (3 - j) * 4
              [] OTHER -> 0
        ELSE IF type = 3 THEN i * 4 + j
        ELSE Turned(j - rotationCenters[type][1], i - rotationCenters[type][2],
                    rotationCenters[type][1], rotationCenters[type][2])

\* The read tetriminoShapes[type][rotatedIndex] as the callers make it: they
\* do not test rotatedIndex for -1.  Index -1 only arises for types 1,2,4,5,6,
\* where the array being contiguous makes it the last cell of the mask of
\* type - 1.
ShapeRead(type, rotatedIndex) ==
    tetriminoShapes[IF rotatedIndex >= 0 THEN type + 1 ELSE type]
                   [IF rotatedIndex >= 0 THEN rotatedIndex + 1 ELSE 16]

\* The box cells <<i, j>> a piece of this type and rotation occupies.
CellTable ==
    [type \in 0..6 |-> [rotation \in 0..3 |->
        {c \in (0..3) \X (0..3) :
            ShapeRead(type, getRotatedIndex(type, c[1], c[2], rotation)) # 0}]]

Cells(tet) == CellTable[tet.type][tet.rotation]

Tetrimino(t) == [type |-> t, rotation |-> 0, x |-> BOARD_WIDTH \div 2 - 2, y |-> 0]

isWithinBounds(x, y) == x >= 0 /\ x < BOARD_WIDTH /\ y >= 0 /\ y < BOARD_HEIGHT

isPositionValid(tet, board) ==
    \A c \in Cells(tet) :
        LET x == tet.x + c[2]
            y == tet.y + c[1]
        IN  /\ x >= 0
            /\ x < BOARD_WIDTH
            /\ y < BOARD_HEIGHT
            /\ (y < 0 \/ board[y][x] = 0)

RECURSIVE DropFrom(_, _, _)
DropFrom(tet, board, dropDistance) ==
    IF isPositionValid(tet, board)
    THEN DropFrom([tet EXCEPT !.y = @ + 1], board, dropDistance + 1)
    ELSE dropDistance

\* A drop that stops one row above the landing row.
calculateDropDistanceShort(tet, board) == Max(DropFrom(tet, board, 0) - 2, 0)

calculateDropDistance(tet, board) == Max(DropFrom(tet, board, 0) - 1, 0)

getFallSpeed(level) ==
    LET lv == Min(level, Len(fallSpeeds) - 1)
    IN  Max(fallSpeeds[lv + 1], 16)

\* ------------------------------------------------------------------ state
VARIABLES
    board,                  \* TetrisGui::board, [0..19 -> [0..9 -> 0..7]]
    currentTetrimino,       \* [type, rotation, x, y]
    nextTetrimino,          \* type of the next piece (its x, y, rotation are
    nextTetrimino1,         \*   never read: spawn recomputes x and y, and a
    nextTetrimino2,         \*   queued piece always has rotation 0)
    storedTetrimino,        \* type of the hold slot, -1 when empty
    hasSwapped,
    scoreValue,
    maxHighScore,
    linesCleared,
    level,
    linesClearedForLevelUp,
    paused,
    gameOver,
    fallCounter,
    lockDelayCounter,
    lockDelayMoves,
    timeSinceLastRotationOrMove,   \* now - lastRotationOrMoveTime
    elapsedSinceLastFrame,         \* now - timeSinceLastFrame
    totalSoftDropDistance,
    lastWallKickApplied,
    pieceWasKickedUp,
    previousClearWasTetris,
    previousClearWasTSpin,
    backToBackCount,
    linesClearedText,
    linesClearedScore,
    keyTimers,              \* DAS/ARR bookkeeping of left, right and down
    ghost                   \* history of the last handler call (not program state)

vars ==
    << board, currentTetrimino, nextTetrimino, nextTetrimino1, nextTetrimino2,
       storedTetrimino, hasSwapped, scoreValue, maxHighScore, linesCleared,
       level, linesClearedForLevelUp, paused, gameOver, fallCounter,
       lockDelayCounter, lockDelayMoves, timeSinceLastRotationOrMove,
       elapsedSinceLastFrame, totalSoftDropDistance, lastWallKickApplied,
       pieceWasKickedUp, previousClearWasTetris, previousClearWasTSpin,
       backToBackCount, linesClearedText, linesClearedScore, keyTimers, ghost >>

\* The program state as one record, so that a handler is a composition of the
\* functions it calls.
St ==
    [ board |-> board,
      currentTetrimino |-> currentTetrimino,
      nextTetrimino |-> nextTetrimino,
      nextTetrimino1 |-> nextTetrimino1,
      nextTetrimino2 |-> nextTetrimino2,
      storedTetrimino |-> storedTetrimino,
      hasSwapped |-> hasSwapped,
      scoreValue |-> scoreValue,
      maxHighScore |-> maxHighScore,
      linesCleared |-> linesCleared,
      level |-> level,
      linesClearedForLevelUp |-> linesClearedForLevelUp,
      paused |-> paused,
      gameOver |-> gameOver,
      fallCounter |-> fallCounter,
      lockDelayCounter |-> lockDelayCounter,
      lockDelayMoves |-> lockDelayMoves,
      timeSinceLastRotationOrMove |-> timeSinceLastRotationOrMove,
      elapsedSinceLastFrame |-> elapsedSinceLastFrame,
      totalSoftDropDistance |-> totalSoftDropDistance,
      lastWallKickApplied |-> lastWallKickApplied,
      pieceWasKickedUp |-> pieceWasKickedUp,
      previousClearWasTetris |-> previousClearWasTetris,
      previousClearWasTSpin |-> previousClearWasTSpin,
      backToBackCount |-> backToBackCount,
      linesClearedText |-> linesClearedText,
      linesClearedScore |-> linesClearedScore,
      keyTimers |-> keyTimers,
      ghost |-> ghost ]

Becomes(s) ==
    /\ board' = s.board
    /\ currentTetrimino' = s.currentTetrimino
    /\ nextTetrimino' = s.nextTetrimino
    /\ nextTetrimino1' = s.nextTetrimino1
    /\ nextTetrimino2' = s.nextTetrimino2
    /\ storedTetrimino' = s.storedTetrimino
    /\ hasSwapped' = s.hasSwapped
    /\ scoreValue' = s.scoreValue
    /\ maxHighScore' = s.maxHighScore
    /\ linesCleared' = s.linesCleared
    /\ level' = s.level
    /\ linesClearedForLevelUp' = s.linesClearedForLevelUp
    /\ paused' = s.paused
    /\ gameOver' = s.gameOver
    /\ fallCounter' = s.fallCounter
    /\ lockDelayCounter' = s.lockDelayCounter
    /\ lockDelayMoves' = s.lockDelayMoves
    /\ timeSinceLastRotationOrMove' = s.timeSinceLastRotationOrMove
    /\ elapsedSinceLastFrame' = s.elapsedSinceLastFrame
    /\ totalSoftDropDistance' = s.totalSoftDropDistance
    /\ lastWallKickApplied' = s.lastWallKickApplied
    /\ pieceWasKickedUp' = s.pieceWasKickedUp
    /\ previousClearWasTetris' = s.previousClearWasTetris
    /\ previousClearWasTSpin' = s.previousClearWasTSpin
    /\ backToBackCount' = s.backToBackCount
    /\ linesClearedText' = s.linesClearedText
    /\ linesClearedScore' = s.linesClearedScore
    /\ keyTimers' = s.keyTimers
    /\ ghost' = s.ghost

\* ------------------------------------------------------------ operations
\* TetrisElement::setScore
setScore(s, v) ==
    [s EXCEPT !.scoreValue = v,
              !.maxHighScore = IF v > @ THEN v ELSE @]

\* TetrisGui::isOnFloor.  The read board[y + 1][x] is made without a test of
\* y + 1 >= 0; for a cell with y <= -2 it reads outside the array, and oob is
\* whether that read finds a non-zero value.
isOnFloor(s, oob) ==
    IF s.pieceWasKickedUp THEN TRUE
    ELSE \E c \in Cells(s.currentTetrimino) :
            LET x == s.currentTetrimino.x + c[2]
                y == s.currentTetrimino.y + c[1]
            IN  \/ y + 1 >= BOARD_HEIGHT
                \/ IF y + 1 < 0 \/ x < 0 \/ x >= BOARD_WIDTH THEN oob
                   ELSE s.board[y + 1][x] # 0

\* Whether a call of isOnFloor in s reads outside the board.
OnFloorReadsOutside(s) ==
    /\ ~s.pieceWasKickedUp
    /\ \E c \in Cells(s.currentTetrimino) :
           LET x == s.currentTetrimino.x + c[2]
               y == s.currentTetrimino.y + c[1]
           IN  y + 1 < 0 \/ (y + 1 < BOARD_HEIGHT /\ (x < 0 \/ x >= BOARD_WIDTH))

NoteFloorRead(s) ==
    IF OnFloorReadsOutside(s) THEN [s EXCEPT !.ghost.oobRead = TRUE] ELSE s

\* The lock-delay accounting shared by a horizontal move and a rotation:
\* "if (isOnFloor()) { if (lockDelayMoves < maxLockDelayMoves) {...} } else {...}".
GroundedCredit(s0, oob) ==
    LET Credit(s) ==
            IF isOnFloor(s, oob)
            THEN IF s.lockDelayMoves < maxLockDelayMoves
                 THEN [s EXCEPT !.lockDelayCounter = 0,
                                !.timeSinceLastRotationOrMove = 0,
                                !.lockDelayMoves = @ + 1]
                 ELSE [s EXCEPT !.ghost.capMove = TRUE]
            ELSE [s EXCEPT !.lockDelayCounter = 0,
                           !.timeSinceLastRotationOrMove = 0]
    IN  Bind(NoteFloorRead(s0), Credit)

\* totalSoftDropDistance is kept up to SoftDropSat rows: a piece that climbs
\* and falls for ever would otherwise never come back to a state.
SoftDropSat == 4

\* TetrisGui::move: the state after the call and whether it succeeded.
move(s, dx, dy, oob) ==
    LET moved == [s.currentTetrimino EXCEPT !.x = @ + dx, !.y = @ + dy]
        Down(s3) == IF ~s3.pieceWasKickedUp
                    THEN [s3 EXCEPT !.lockDelayMoves = 0, !.lockDelayCounter = 0]
                    ELSE s3
        Landed(s1) ==
            IF dy > 0
            THEN Bind([s1 EXCEPT !.totalSoftDropDistance = Min(@ + dy, SoftDropSat),
                                 !.ghost.fallen = Min(@ + dy, SoftDropSat)],
                      Down)
            ELSE IF dx # 0 THEN GroundedCredit(s1, oob)
            ELSE s1
        Done(s2) == [s |-> s2, success |-> TRUE]
    IN  IF ~isPositionValid(moved, s.board)
        THEN [s |-> s, success |-> FALSE]
        ELSE Done(Bind([s EXCEPT !.currentTetrimino = moved], Landed))

\* The last index in k..Len(kicks) whose offset gives a valid position, 0 when
\* there is none.
LastValidKick(tet, b, kicks, k) ==
    LET fits == { i \in k..Len(kicks) :
                    isPositionValid([tet EXCEPT !.x = @ + kicks[i][1],
                                                !.y = @ + kicks[i][2]], b) }
    IN  IF fits = {} THEN 0 ELSE CHOOSE i \in fits : \A j \in fits : j <= i

\* The first index k in 1..Len(kicks) whose offset gives a valid position for
\* the rotated piece, 0 when there is none.
RECURSIVE FirstValidKick(_, _, _, _)
FirstValidKick(tet, b, kicks, k) ==
    IF k > Len(kicks) THEN 0
    ELSE IF isPositionValid([tet EXCEPT !.x = @ + kicks[k][1],
                                        !.y = @ + kicks[k][2]], b)
         THEN k
         ELSE FirstValidKick(tet, b, kicks, k + 1)

\* A revert that restores x and y and forgets the rotation.
RevertRotationPartial(s, previous) ==
    [s EXCEPT !.currentTetrimino = [@ EXCEPT !.x = previous.x, !.y = previous.y],
              !.pieceWasKickedUp = FALSE]

\* No revert: the piece stays on the last candidate the attempt tried.
RevertRotationSkipped(s, previous) ==
    [s EXCEPT !.pieceWasKickedUp = FALSE]

\* "If rotation failed, revert to the previous state": s holds the last
\* candidate the kick loops tried.
RevertRotation(s, previous) ==
    [s EXCEPT !.currentTetrimino = [@ EXCEPT !.rotation = previous.rotation,
                                             !.x = previous.x,
                                             !.y = previous.y],
              !.pieceWasKickedUp = FALSE]

\* TetrisGui::rotatePiece(direction): -1 clockwise, +1 counterclockwise.
rotatePiece(s, direction, oob) ==
    LET cur == s.currentTetrimino
        previousRotation == cur.rotation
        newRotation == (cur.rotation + direction + 4) % 4
        turned == [cur EXCEPT !.rotation = newRotation]
        kickIndex == IF direction < 0 THEN previousRotation ELSE newRotation
        Kicked(kick, wallKick) ==
            [s EXCEPT !.currentTetrimino =
                          [turned EXCEPT !.x = @ + kick[1], !.y = @ + kick[2]],
                      !.lastWallKickApplied = wallKick,
                      !.pieceWasKickedUp = (kick[2] < 0),
                      !.ghost.turn = "kicked"]
        \* No kick fits: s is left holding the last candidate tried.
        Failed(last) ==
            [s EXCEPT !.currentTetrimino =
                          [turned EXCEPT !.x = @ + last[1], !.y = @ + last[2]],
                      !.lastWallKickApplied = FALSE,
                      !.ghost.turn = "failed"]
        AfterExtra(extraKicks, k2) ==
            IF k2 # 0 THEN Kicked(extraKicks[k2], TRUE)
            ELSE Failed(extraKicks[Len(extraKicks)])
        TryExtra(extraKicks) ==
            AfterExtra(extraKicks, FirstValidKick(turned, s.board, extraKicks, 1))
        AfterStandard(standard, k1) ==
            IF k1 # 0
            THEN Kicked(standard[k1], standard[k1][1] # 0 \/ standard[k1][2] # 0)
            ELSE TryExtra(IF cur.type = 0 THEN extraKicksI ELSE extraKicksJLSTZ)
        TryStandard(standard) ==
            AfterStandard(standard, FirstValidKick(turned, s.board, standard, 1))
        \* "if (!rotationSuccessful) { revert; return; }", then the lock-delay
        \* accounting.
        Finish(r) ==
            IF r.ghost.turn = "failed" THEN RevertRotation(r, cur)
            ELSE GroundedCredit(r, oob)
    IN  IF cur.type = 3 THEN s
        ELSE Finish(
                 IF isPositionValid(turned, s.board)
                 THEN [s EXCEPT !.currentTetrimino = turned,
                                !.lastWallKickApplied = FALSE,
                                !.pieceWasKickedUp = FALSE,
                                !.ghost.turn = "direct"]
                 ELSE TryStandard((IF cur.type = 0 THEN wallKicksI
                                   ELSE wallKicksJLSTZ)[kickIndex + 1]))

\* TetrisGui::rotate / rotateCounterclockwise: success is read off the piece.
RotateResult(s, direction, oob) ==
    LET Result(s1) ==
            [s |-> s1,
             success |-> \/ s1.currentTetrimino.rotation # s.currentTetrimino.rotation
                         \/ s1.currentTetrimino.x # s.currentTetrimino.x
                         \/ s1.currentTetrimino.y # s.currentTetrimino.y]
    IN  Result(rotatePiece(s, direction, oob))

rotate(s, oob) == RotateResult(s, -1, oob)

rotateCounterclockwise(s, oob) == RotateResult(s, 1, oob)

\* ------------------------------------------------------ history (ghost)
\* What the handler calls did; none of it is read by the program.
\*   op            "init" as constructed, "load" after loadGameState, "play"
\*                 after update / handleInput / onHide, "reset" after
\*                 resetGame, "close" once the overlay is closed
\* Of the last handler call:
\*   nPlaced       placeTetrimino calls made by it
\*   nDrawn        rand() draws consumed by it
\*   aboveTop      one of its placements had an occupied cell at y < 0
\*   spawnInvalid  one of its spawns produced a piece that is not valid
\*   byGravity     update ran its lock sequence
\*   clocks        <<lockDelayCounter, now - lastRotationOrMoveTime>> at its
\*                 last placement, <<>> when it placed nothing
\*   capMove       a horizontal move or rotation succeeded on the floor with
\*                 lockDelayMoves at maxLockDelayMoves
\*   holdDenied    it was a dispatch of the hold key alone, with hasSwapped set
\*   oobRead       isOnFloor read board[y + 1][x] outside the array
\*   turn          how its rotatePiece ended: "direct" (fits unkicked), "kicked",
\*                 "failed" (reverted), "none" (no rotation, or an O piece);
\*                 for a call of move alone "moved" or "blocked"
\*   kickBefore    lastWallKickApplied as the call found it
\*   overwrote     one of its placements wrote a cell that was not empty
\*   due           fallCounter as the gravity test of update read it, 0 when
\*                 update did not run
\*   frozen        the game as it was when it set gameOver, <<>> otherwise
\*   thawed        the game it left differs from frozen
\* Since the start:
\*   locks         placeTetrimino calls
\*   resets        resetGame calls
\*   played        handler calls after the run's last placement or restart
\*   highBeforeLoad  maxHighScore in memory when loadGameState replaced it
\* Of the current piece:
\*   fallen        rows it went down by successful calls of move(0, 1), up to
\*                 SoftDropSat
\* Since the last dispatch that carried a key:
\*   rested        after it the game ran at level 1 and the piece could not
\*                 move down
\*   idle          milliseconds of update ticks
\*   ticks         gravity steps of update (fallCounter >= getFallSpeed())
\*   lockedSince   update has placed a piece
\* Where a render pass runs beside the engine (threads):
\*   dpc, epc      the position of draw and of hardDrop
\*   row           the board rows draw has read
\*   seenBoard, seenPiece   what draw has read
\*   boardMutex, particleMutex   the holder of each mutex, "" when free
\*   before        <<board, currentTetrimino>> when the two started
NoThreads ==
    [ dpc |-> "done", epc |-> "done", row |-> 0, seenBoard |-> <<>>,
      seenPiece |-> <<>>, boardMutex |-> "", particleMutex |-> "",
      before |-> <<>> ]

\* One pass of a shape loop over a box cell (probe):
\*   i, j       the box cell of the loop
\*   step       "none", "drawn" (cell chosen), "read" (mask indexed),
\*              "counted" (the 16 cells of the piece gone through)
\*   index      the index at which the mask was read
\*   occupied   the box cells that getRotatedIndex maps to a non-zero mask cell
NoProbe ==
    [ i |-> 0, j |-> 0, step |-> "none", index |-> 0, occupied |-> {} ]

\* The directions that auto-repeat, and a count of 0 for each.
Directions == {"LEFT", "RIGHT", "DOWN"}

NoAttempts == [d \in Directions |-> 0]

GhostInit ==
    [ op |-> "init", nPlaced |-> 0, nDrawn |-> 0, aboveTop |-> FALSE,
      spawnInvalid |-> FALSE, byGravity |-> FALSE, clocks |-> <<>>,
      capMove |-> FALSE, holdDenied |-> FALSE, oobRead |-> FALSE,
      turn |-> "none",
      frozen |-> <<>>, thawed |-> FALSE, locks |-> 0, resets |-> 0, played |-> 0,
      highBeforeLoad |-> 0,
      rested |-> FALSE, idle |-> 0, ticks |-> 0, lockedSince |-> FALSE,
      keys |-> {}, fell |-> FALSE, given |-> <<>>, chain |-> 0, tetrises |-> 0,
      att |-> NoAttempts, floorDrop |-> FALSE, downAt |-> <<>>,
      heldKeys |-> {}, heldFor |-> NoAttempts, sinceAttempt |-> NoAttempts,
      order |-> <<>>, watch |-> FALSE, kickBefore |-> FALSE,
      overwrote |-> FALSE, due |-> 0, fallen |-> 0, threads |-> NoThreads,
      probe |-> NoProbe ]

\* idle saturates once it has passed twice the lock delay.
IdleSat == lockDelayTime + lockDelayExtension

MaxTicks == 2

\* The part of the state that a finished round is made of.
GameOf(s) ==
    << s.board, s.currentTetrimino, s.nextTetrimino, s.nextTetrimino1,
       s.nextTetrimino2, s.storedTetrimino, s.scoreValue, s.linesCleared,
       s.level >>

BeginCall(s, op) ==
    [s EXCEPT !.ghost = [@ EXCEPT !.op = op, !.nPlaced = 0, !.nDrawn = 0,
                                  !.aboveTop = FALSE, !.spawnInvalid = FALSE,
                                  !.byGravity = FALSE, !.clocks = <<>>,
                                  !.capMove = FALSE, !.holdDenied = FALSE,
                                  !.oobRead = FALSE, !.turn = "none",
                                  !.frozen = <<>>,
                                  !.thawed = FALSE,
                                  !.keys = {}, !.fell = FALSE,
                                  !.att = NoAttempts, !.floorDrop = FALSE,
                                  !.downAt = <<>>, !.order = <<>>,
                                  !.kickBefore = s.lastWallKickApplied,
                                  !.overwrote = FALSE, !.due = 0]]

\* The end of a handler call: whether the game it set over has changed since.
EndCall(s) ==
    [s EXCEPT !.ghost.thawed = (s.ghost.frozen # <<>> /\ GameOf(s) # s.ghost.frozen),
              !.ghost.frozen = <<>>]

\* tetrisElement->gameOver = true, remembering the game at that moment.
SetGameOver(s) ==
    IF s.gameOver THEN s
    ELSE [s EXCEPT !.gameOver = TRUE, !.ghost.frozen = GameOf(s)]

\* rand() % 7: the next value of the draws handed to the handler.
Rand(s, draws) == draws[s.ghost.nDrawn + 1]

\* ------------------------------------------------------- lock sequence
\* The absolute cells <<x, y>> of a piece.
Occupied(tet) == {<<tet.x + c[2], tet.y + c[1]>> : c \in Cells(tet)}

\* The piece is resting: a cell directly below one of its cells is occupied
\* or is below the board.
Resting(tet, b) ==
    \E c \in Occupied(tet) :
        \/ c[2] + 1 >= BOARD_HEIGHT
        \/ c[2] + 1 >= 0 /\ b[c[2] + 1][c[1]] # 0

\* A placement that writes type + 2 into the cells of the piece.
placeTetriminoOffByOne(s) ==
    [s EXCEPT !.board = [y \in 0..(BOARD_HEIGHT - 1) |->
                            [x \in 0..(BOARD_WIDTH - 1) |->
                                IF <<x, y>> \in Occupied(s.currentTetrimino)
                                THEN s.currentTetrimino.type + 2
                                ELSE s.board[y][x]]],
              !.pieceWasKickedUp = FALSE,
              !.hasSwapped = FALSE,
              !.ghost.nPlaced = @ + 1,
              !.ghost.locks = @ + 1]

\* TetrisGui::placeTetrimino
placeTetrimino(s) ==
    LET cur == s.currentTetrimino
        \* What follows "if (pieceAboveTop) { gameOver = true; return; }".
        Award(s1) ==
            [(IF s1.totalSoftDropDistance > 0
              THEN setScore(s1, s1.scoreValue + s1.totalSoftDropDistance * 1)
              ELSE s1) EXCEPT !.totalSoftDropDistance = 0,
                              !.hasSwapped = FALSE]
        Placed(s1, pieceAboveTop) ==
            IF pieceAboveTop THEN SetGameOver(s1) ELSE Award(s1)
        Place(occ) ==
            Bind([s EXCEPT
                     !.board = [y \in 0..(BOARD_HEIGHT - 1) |->
                                   [x \in 0..(BOARD_WIDTH - 1) |->
                                       IF <<x, y>> \in occ THEN cur.type + 1
                                       ELSE s.board[y][x]]],
                     !.pieceWasKickedUp = FALSE,
                     !.ghost.nPlaced = @ + 1,
                     !.ghost.order = Append(@, "place"),
                     !.ghost.locks = @ + 1,
                     !.ghost.clocks = << s.lockDelayCounter,
                                         s.timeSinceLastRotationOrMove >>,
                     !.ghost.aboveTop = @ \/ \E c \in occ : c[2] < 0,
                     !.ghost.overwrote =
                         @ \/ \E c \in occ : c[2] >= 0 /\ s.board[c[2]][c[1]] # 0],
                 LAMBDA s1 : Placed(s1, \E c \in occ : c[2] < 0))
    IN  Bind(Occupied(cur), Place)

\* TetrisGui::isTSpin, on the board and piece as they are when it is called.
isTSpin(s) ==
    IF s.currentTetrimino.type # 5 THEN FALSE
    ELSE LET centerX == s.currentTetrimino.x + 1
             centerY == s.currentTetrimino.y + 1
             Blocked(x, y) == IF ~isWithinBounds(x, y) THEN 1
                              ELSE IF s.board[y][x] # 0 THEN 1 ELSE 0
             blockedCorners == Blocked(centerX - 1, centerY - 1)
                             + Blocked(centerX + 1, centerY - 1)
                             + Blocked(centerX - 1, centerY + 1)
                             + Blocked(centerX + 1, centerY + 1)
         IN  blockedCorners >= 3 /\ s.lastWallKickApplied

isMiniTSpin(s) ==
    IF s.currentTetrimino.type # 5 THEN FALSE
    ELSE ~isTSpin(s) /\ s.lastWallKickApplied

FullLine(b, i) == \A j \in 0..(BOARD_WIDTH - 1) : b[i][j] # 0

\* A removal that leaves the top row as it was.
ShiftDownKeepTop(b, i) ==
    [y \in 0..(BOARD_HEIGHT - 1) |->
        IF y = 0 THEN b[0]
        ELSE IF y <= i THEN b[y - 1]
        ELSE b[y]]

\* Row i removed: the rows above it move down by one, row 0 becomes empty.
ShiftDown(b, i) ==
    [y \in 0..(BOARD_HEIGHT - 1) |->
        IF y = 0 THEN [x \in 0..(BOARD_WIDTH - 1) |-> 0]
        ELSE IF y <= i THEN b[y - 1]
        ELSE b[y]]

\* A row scan that goes on two rows below a row it has removed.
RECURSIVE ClearScanSkipping(_, _, _)
ClearScanSkipping(b, i, n) ==
    IF i >= BOARD_HEIGHT THEN [board |-> b, lines |-> n]
    ELSE IF FullLine(b, i) THEN ClearScanSkipping(ShiftDown(b, i), i + 2, n + 1)
    ELSE ClearScanSkipping(b, i + 1, n)

\* The row scan of clearLines from row i on: the board and the rows cleared.
RECURSIVE ClearScan(_, _, _)
ClearScan(b, i, n) ==
    IF i >= BOARD_HEIGHT THEN [board |-> b, lines |-> n]
    ELSE IF FullLine(b, i) THEN ClearScan(ShiftDown(b, i), i + 1, n + 1)
    ELSE ClearScan(b, i + 1, n)

Label(count, text) == [count |-> count, text |-> text]

\* TetrisGui::clearLines
\* A bonus for every Tetris and T-spin clear, whatever came before it.
isBackToBackAlways(s, n, tSpin) == n = 4 \/ tSpin

\* "(previousClearWasTetris || previousClearWasTSpin) &&
\*  (linesClearedInThisTurn == 4 || isTSpin())"
isBackToBack(s, n, tSpin) ==
    (s.previousClearWasTetris \/ s.previousClearWasTSpin) /\ (n = 4 \/ tSpin)

\* A bonus that doubles the base score.
backToBackBonusDouble(baseScore) == baseScore * 2

\* "static_cast<int>(baseScore * 1.5f)": exact in float for these scores, and
\* truncated towards zero.
backToBackBonus(baseScore) == (baseScore * 3) \div 2

clearLines(s) ==
    LET Base(s1, n, tSpin) ==
            CASE n = 1 -> IF tSpin THEN (IF isMiniTSpin(s1) THEN 100 ELSE 400)
                          ELSE 100
              [] n = 2 -> IF tSpin THEN 700 ELSE 300
              [] n = 3 -> 500
              [] n = 4 -> 800
              [] OTHER -> 0
        Text(n, tSpin, backToBack, newCount) ==
            CASE n = 1 -> Label(0, IF tSpin THEN "T-Spin\nSingle" ELSE "Single")
              [] n = 2 -> Label(0, IF tSpin THEN "T-Spin\nDouble" ELSE "Double")
              [] n = 3 -> Label(0, "Triple")
              [] n = 4 -> IF backToBack THEN Label(newCount, "x Tetris")
                          ELSE Label(0, "Tetris")
              [] OTHER -> s.linesClearedText
        Book(s1, n, tSpin, backToBack, newCount, newScore, up) ==
            [setScore(s1, s1.scoreValue + newScore) EXCEPT
                !.linesCleared = @ + n,
                !.backToBackCount = newCount,
                !.linesClearedScore = newScore,
                !.previousClearWasTetris = (n = 4),
                !.previousClearWasTSpin = (n # 4 /\ tSpin),
                !.linesClearedForLevelUp =
                    IF up >= LINES_PER_LEVEL THEN up - LINES_PER_LEVEL ELSE up,
                !.level = IF up >= LINES_PER_LEVEL THEN @ + 1 ELSE @,
                !.linesClearedText = Text(n, tSpin, backToBack, newCount)]
        Pay(s1, n, tSpin, backToBack, baseScore) ==
            Book(s1, n, tSpin, backToBack,
                 IF backToBack THEN s.backToBackCount + 1 ELSE 1,
                 (IF (n = 4 \/ tSpin) /\ backToBack THEN backToBackBonus(baseScore)
                  ELSE baseScore) * s.level,
                 s.linesClearedForLevelUp + n)
        Score(s1, n, tSpin) ==
            Pay(s1, n, tSpin, isBackToBack(s, n, tSpin), Base(s1, n, tSpin))
        Cleared(s1, n) ==
            IF n = 0 THEN s1
            ELSE Bind(isTSpin(s1), LAMBDA tSpin : Score(s1, n, tSpin))
        Scanned(scan) ==
            Bind([s EXCEPT !.board = scan.board,
                           !.ghost.order = Append(@, "clear")],
                 LAMBDA s1 : Cleared(s1, scan.lines))
    IN  Bind(ClearScan(s.board, 0, 0), Scanned)

\* The x and y spawnNewTetrimino gives a piece of this type (rotation 0).
SpawnPosition(type) ==
    LET At(minX, maxX, bottommostRow) ==
            [type |-> type, rotation |-> 0,
             x |-> (BOARD_WIDTH - (maxX - minX + 1)) \div 2 - minX,
             y |-> -bottommostRow]
        Box(cells) ==
            At(CHOOSE j \in 0..3 : /\ \E c \in cells : c[2] = j
                                   /\ \A c \in cells : c[2] >= j,
               CHOOSE j \in 0..3 : /\ \E c \in cells : c[2] = j
                                   /\ \A c \in cells : c[2] <= j,
               CHOOSE i \in 0..3 : /\ \E c \in cells : c[1] = i
                                   /\ \A c \in cells : c[1] <= i)
    IN  Box(CellTable[type][0])

\* A spawn that takes the piece after the next one.
spawnNewTetriminoSkipping(s, draws) ==
    LET Spawned(s1) ==
            IF ~isPositionValid(s1.currentTetrimino, s1.board)
            THEN SetGameOver([s1 EXCEPT !.ghost.spawnInvalid = TRUE])
            ELSE s1
    IN  Bind([s EXCEPT !.currentTetrimino = SpawnPosition(s.nextTetrimino1),
                       !.nextTetrimino = s.nextTetrimino1,
                       !.nextTetrimino1 = s.nextTetrimino2,
                       !.nextTetrimino2 = Rand(s, draws),
                       !.ghost.nDrawn = @ + 1],
             Spawned)

\* A spawn that does not end the game when the new piece does not fit.
spawnNewTetriminoSilent(s, draws) ==
    LET Spawned(s1) ==
            IF ~isPositionValid(s1.currentTetrimino, s1.board)
            THEN [s1 EXCEPT !.ghost.spawnInvalid = TRUE]
            ELSE s1
    IN  Bind([s EXCEPT !.currentTetrimino = SpawnPosition(s.nextTetrimino),
                       !.nextTetrimino = s.nextTetrimino1,
                       !.nextTetrimino1 = s.nextTetrimino2,
                       !.nextTetrimino2 = Rand(s, draws),
                       !.ghost.nDrawn = @ + 1],
             Spawned)

\* TetrisGui::spawnNewTetrimino
spawnNewTetrimino(s, draws) ==
    LET Spawned(s1) ==
            IF ~isPositionValid(s1.currentTetrimino, s1.board)
            THEN SetGameOver([s1 EXCEPT !.ghost.spawnInvalid = TRUE])
            ELSE s1
    IN  Bind([s EXCEPT !.currentTetrimino = SpawnPosition(s.nextTetrimino),
                       !.nextTetrimino = s.nextTetrimino1,
                       !.nextTetrimino1 = s.nextTetrimino2,
                       !.nextTetrimino2 = Rand(s, draws),
                       !.ghost.nDrawn = @ + 1,
                       !.ghost.fallen = 0,
                       !.ghost.order = Append(@, "spawn")],
             Spawned)

\* A hard-drop award that overwrites the score.
hardDropAwardAssigned(s, hardDropDistance) ==
    setScore(s, hardDropDistance * 2)

\* "hardDropScore = hardDropDistance * 2; setScore(getScore() + hardDropScore)"
hardDropAward(s, hardDropDistance) ==
    setScore(s, s.scoreValue + hardDropDistance * 2)

\* TetrisGui::hardDrop
hardDrop(s, draws) ==
    LET Ended(s4) ==
            IF ~isPositionValid(s4.currentTetrimino, s4.board)
            THEN SetGameOver(s4)
            ELSE s4
        Locked(s3) == Bind([s3 EXCEPT !.totalSoftDropDistance = 0], Ended)
        Cleared(s2) == Bind(spawnNewTetrimino(s2, draws), Locked)
        Placed(s2) == Bind(clearLines(s2), Cleared)
        Awarded(s2) == Bind(placeTetrimino(s2), Placed)
        Drop(hardDropDistance) ==
            Bind(hardDropAward([s EXCEPT !.currentTetrimino.y = @ + hardDropDistance],
                               hardDropDistance),
                 Awarded)
    IN  Bind(calculateDropDistance(s.currentTetrimino, s.board), Drop)

\* TetrisGui::swapStoredTetrimino
swapStoredTetrimino(s, draws) ==
    IF s.storedTetrimino = -1
    THEN spawnNewTetrimino(
             [s EXCEPT !.storedTetrimino = s.currentTetrimino.type], draws)
    ELSE [s EXCEPT !.currentTetrimino = Tetrimino(s.storedTetrimino),
                   !.storedTetrimino = s.currentTetrimino.type,
                   !.ghost.fallen = 0]

\* ------------------------------------------------------------ handlers
\* The clock advancing by ms: every "now - timestamp" grows by it.  A
\* difference that is only compared with one threshold saturates there
\* (lastRotationOrMoveTime: lockDelayExtension; a direction key: DAS, which is
\* above ARR).  The timestamp of a direction key is only read while the key is
\* held, so its difference is kept at 0 while it is not.
AdvanceTime(s, ms) ==
    [s EXCEPT !.timeSinceLastRotationOrMove = Min(@ + ms, lockDelayExtension),
              !.elapsedSinceLastFrame = Sat(@ + ms),
              !.keyTimers.leftElapsed = IF s.keyTimers.leftHeld THEN Min(@ + ms, DAS) ELSE 0,
              !.keyTimers.rightElapsed = IF s.keyTimers.rightHeld THEN Min(@ + ms, DAS) ELSE 0,
              !.keyTimers.downElapsed = IF s.keyTimers.downHeld THEN Min(@ + ms, DAS) ELSE 0,
              !.ghost.heldFor = [d \in Directions |->
                  IF d \in s.ghost.heldKeys THEN Min(@[d] + ms, DAS) ELSE 0],
              !.ghost.sinceAttempt = [d \in Directions |->
                  IF d \in s.ghost.heldKeys THEN Min(@[d] + ms, ARR) ELSE 0]]

\* A test that only stops a finished game.
HaltedWhenOver(s) == s.gameOver

\* "TetrisElement::paused || tetrisElement->gameOver": the game is not running.
Halted(s) == s.paused \/ s.gameOver

\* placeTetrimino(); clearLines(); spawnNewTetrimino();
\* A lock that clears the lines before the piece is on the board.
LockSequenceClearFirst(s, draws) ==
    Bind(clearLines(s),
         LAMBDA cleared : Bind(placeTetrimino(cleared),
                               LAMBDA placed : spawnNewTetrimino(placed, draws)))

\* "placeTetrimino(); clearLines(); spawnNewTetrimino();"
LockSequence(s, draws) ==
    Bind(placeTetrimino(s),
         LAMBDA placed : Bind(clearLines(placed),
                              LAMBDA cleared : spawnNewTetrimino(cleared, draws)))

\* A lock test that is satisfied by either clock.
LockDueEither(s) ==
    \/ s.lockDelayCounter >= lockDelayTime
    \/ s.timeSinceLastRotationOrMove >= lockDelayExtension

\* The lock test of update: both clocks have reached their 500 ms.
LockDue(s) ==
    /\ s.lockDelayCounter >= lockDelayTime
    /\ s.timeSinceLastRotationOrMove >= lockDelayExtension

\* TetrisGui::update, with the clock already advanced to its currentTime.
update(s, draws) ==
    LET \* The piece cannot fall: s3 has the lock delay counted.
        Grounded(s3) ==
            IF LockDue(s3)
            THEN [LockSequence(s3, draws) EXCEPT
                     !.lockDelayCounter = 0, !.fallCounter = 0,
                     !.ghost.byGravity = TRUE,
                     !.ghost.lockedSince = TRUE]
            ELSE [s3 EXCEPT !.fallCounter = 0]
        \* m is the result of move(0, 1), fc the fallCounter it was tried at.
        Fell(m, fc) ==
            IF m.success
            THEN [m.s EXCEPT !.lockDelayCounter = 0, !.fallCounter = 0,
                             !.ghost.ticks = Min(@ + 1, MaxTicks),
                             !.ghost.fell = TRUE]
            ELSE Bind([m.s EXCEPT !.lockDelayCounter = Sat(@ + fc),
                                  !.ghost.ticks = Min(@ + 1, MaxTicks),
                                  !.ghost.fell = TRUE],
                      Grounded)
        Tick(s1) ==
            IF s1.fallCounter < getFallSpeed(s1.level) THEN s1
            ELSE Bind(move(s1, 0, 1, FALSE), LAMBDA m : Fell(m, s1.fallCounter))
        Frame(s2) == Bind([s2 EXCEPT !.elapsedSinceLastFrame = 0], EndCall)
    IN  IF Halted(s) THEN s
        ELSE Frame(Bind([s EXCEPT
                            !.fallCounter = Sat(@ + s.elapsedSinceLastFrame),
                            !.ghost.due = Sat(s.fallCounter + s.elapsedSinceLastFrame),
                            !.ghost.idle = Min(@ + s.elapsedSinceLastFrame,
                                               IdleSat)],
                        Tick))

resetSleepMs == 300

\* A restart that clears the score and the two flags and keeps the rest.
resetGameFlagsOnly(s, draws) ==
    [setScore(AdvanceTime(s, resetSleepMs), 0)
        EXCEPT !.gameOver = FALSE,
               !.paused = FALSE,
               !.ghost.op = "reset",
               !.ghost.resets = @ + 1]

\* TetrisGui::resetGame
resetGame(s, draws) ==
    LET Fresh(s2) ==
            [setScore([s2 EXCEPT !.nextTetrimino = draws[s2.ghost.nDrawn + 1],
                                 !.nextTetrimino1 = draws[s2.ghost.nDrawn + 2],
                                 !.nextTetrimino2 = draws[s2.ghost.nDrawn + 3],
                                 !.ghost.nDrawn = @ + 3,
                                 !.storedTetrimino = -1,
                                 !.hasSwapped = FALSE], 0)
                EXCEPT !.linesCleared = 0,
                       !.level = 1,
                       !.gameOver = FALSE,
                       !.paused = FALSE,
                       !.ghost.op = "reset",
                       !.ghost.resets = @ + 1]
    IN  Fresh(spawnNewTetrimino(
                  [AdvanceTime(s, resetSleepMs) EXCEPT
                      !.lastWallKickApplied = FALSE,
                      !.previousClearWasTetris = FALSE,
                      !.previousClearWasTSpin = FALSE,
                      !.backToBackCount = 1,
                      !.board = [y \in 0..(BOARD_HEIGHT - 1) |->
                                    [x \in 0..(BOARD_WIDTH - 1) |-> 0]]],
                  draws))

\* One of the left/right blocks of handleInput; st is [s, moved].
Shift(st, held, dx, oob) ==
    LET s == st.s
        isLeft == dx < 0
        wasHeld == IF isLeft THEN s.keyTimers.leftHeld ELSE s.keyTimers.rightHeld
        inARR == IF isLeft THEN s.keyTimers.leftARR ELSE s.keyTimers.rightARR
        elapsed == IF isLeft THEN s.keyTimers.leftElapsed ELSE s.keyTimers.rightElapsed
        Timers(t, isHeld, arr, el) ==
            IF isLeft THEN [t EXCEPT !.leftHeld = isHeld, !.leftARR = arr,
                                     !.leftElapsed = el]
            ELSE [t EXCEPT !.rightHeld = isHeld, !.rightARR = arr,
                           !.rightElapsed = el]
        \* "moved = move(dx, 0)": first press, end of DAS, or an ARR interval.
        Fires == \/ ~wasHeld
                 \/ ~inARR /\ elapsed >= DAS
                 \/ inARR /\ elapsed >= ARR
        Moved(m, arr) ==
            [s |-> [m.s EXCEPT !.keyTimers = Timers(@, TRUE, arr, 0),
                               !.ghost.att[IF isLeft THEN "LEFT" ELSE "RIGHT"] = @ + 1],
             moved |-> m.success]
    IN  IF ~held
        THEN [st EXCEPT !.s.keyTimers = Timers(@, FALSE, inARR, 0)]
        ELSE IF Fires THEN Moved(move(s, dx, 0, oob), wasHeld)
        ELSE st

\* The down block of handleInput.
SoftDrop(st, held, draws, oob) ==
    LET s == st.s
        t == s.keyTimers
        DownAt == [piece |-> s.currentTetrimino,
                   resting |-> Resting(s.currentTetrimino, s.board)]
        Dropped(m, arr) ==
            [s |-> [m.s EXCEPT !.keyTimers = [@ EXCEPT !.downHeld = TRUE,
                                                       !.downARR = arr,
                                                       !.downElapsed = 0],
                               !.ghost.oobRead = @ \/ OnFloorReadsOutside(s),
                               !.ghost.att["DOWN"] = @ + 1,
                               !.ghost.downAt = DownAt],
             moved |-> m.success]
        Fires == \/ ~t.downHeld
                 \/ ~t.downARR /\ t.downElapsed >= DAS
                 \/ t.downARR /\ t.downElapsed >= ARR
    IN  IF ~held
        THEN [st EXCEPT !.s.keyTimers = [@ EXCEPT !.downHeld = FALSE,
                                                  !.downElapsed = 0]]
        ELSE IF ~Fires THEN st
        ELSE IF isOnFloor(s, oob)
        THEN [st EXCEPT !.s = [hardDrop(NoteFloorRead(s), draws) EXCEPT
                                   !.ghost.att["DOWN"] = @ + 1,
                                   !.ghost.floorDrop = TRUE,
                                   !.ghost.downAt = DownAt]]
        ELSE Dropped(move(s, 0, 1, oob), t.downHeld)

GameKeys == {"L", "LEFT", "RIGHT", "DOWN", "UP"}

\* A hold block that does not look at hasSwapped.
HoldUngated(s, keys, draws) ==
    IF "L" \in keys.down /\ keys.held \subseteq GameKeys
    THEN [swapStoredTetrimino(s, draws) EXCEPT !.hasSwapped = TRUE]
    ELSE s

\* The hold block of handleInput: "if (keysDown & KEY_L && !(keysHeld &
\* ~(KEY_L|KEY_LEFT|KEY_RIGHT|KEY_DOWN|KEY_UP) & ALL_KEYS_MASK) && !hasSwapped)".
Hold(s, keys, draws) ==
    IF "L" \in keys.down /\ keys.held \subseteq GameKeys /\ ~s.hasSwapped
    THEN [swapStoredTetrimino(s, draws) EXCEPT !.hasSwapped = TRUE]
    ELSE s

\* Whether the piece of a running level-1 game cannot move down.
Rested(s) ==
    /\ ~s.paused
    /\ ~s.gameOver
    /\ s.level = 1
    /\ ~isPositionValid([s.currentTetrimino EXCEPT !.y = @ + 1], s.board)

\* The history of a dispatch: r is the state handleInput leaves.
NoteInput(s0, keys, r) ==
    LET \* The keys are recorded in the specifications that watch them.
        Seen(held) == IF r.ghost.watch THEN held ELSE {}
        r1 == IF keys.held = {"L"} /\ s0.hasSwapped /\ ~s0.paused /\ ~s0.gameOver
              THEN [r EXCEPT !.ghost.holdDenied = TRUE, !.ghost.keys = Seen(keys.held)]
              ELSE [r EXCEPT !.ghost.keys = Seen(keys.held)]
        r2 == [r1 EXCEPT
                  !.ghost.heldKeys = Seen(keys.held \cap Directions),
                  !.ghost.att = IF r.ghost.watch THEN @ ELSE NoAttempts,
                  !.ghost.heldFor = [d \in Directions |->
                      IF d \in keys.held /\ d \in s0.ghost.heldKeys THEN @[d] ELSE 0],
                  !.ghost.sinceAttempt = [d \in Directions |->
                      IF d \in keys.held /\ r.ghost.att[d] = 0 THEN @[d] ELSE 0]]
    IN  IF keys.held = {} THEN r2
        ELSE [r2 EXCEPT !.ghost.rested = Rested(r), !.ghost.idle = 0,
                        !.ghost.ticks = 0, !.ghost.lockedSince = FALSE]

\* TetrisGui::handleInput(keysDown, keysHeld), keys.down a subset of keys.held.
handleInput(s0, keys, draws, oob) ==
    LET \* "if (TetrisElement::paused || tetrisElement->gameOver)"
        Close(s1) == IF "B" \in keys.down
                     THEN [s1 EXCEPT !.paused = TRUE, !.ghost.op = "close"]
                     ELSE s1
        Stopped(s) ==
            IF s.gameOver /\ ("A" \in keys.down \/ "PLUS" \in keys.down)
            THEN resetGame(s, draws)
            ELSE Close(IF "PLUS" \in keys.down THEN [s EXCEPT !.paused = FALSE]
                       ELSE s)
        \* The blocks of the running game, in the order of the code; each
        \* takes [s, moved] from the block before it.
        Last(f) == IF f.moved THEN [f.s EXCEPT !.lockDelayCounter = 0] ELSE f.s
        Pause(f) == Last(IF "PLUS" \in keys.down THEN [f EXCEPT !.s.paused = ~@]
                         ELSE f)
        Turned(e, r) == Pause([s |-> r.s, moved |-> e.moved \/ r.success])
        Turn(e) == IF "A" \in keys.down THEN Turned(e, rotate(e.s, oob))
                   ELSE IF "B" \in keys.down
                   THEN Turned(e, rotateCounterclockwise(e.s, oob))
                   ELSE Pause(e)
        Up(d) == Turn(IF "UP" \in keys.down
                      THEN [d EXCEPT !.s = hardDrop(d.s, draws)] ELSE d)
        Playing(s) ==
            Up(SoftDrop(
                   Shift(Shift([s |-> Hold(s, keys, draws), moved |-> FALSE],
                               "LEFT" \in keys.held, -1, oob),
                         "RIGHT" \in keys.held, 1, oob),
                   "DOWN" \in keys.held, draws, oob))
        Dispatch(s) == IF Halted(s) THEN Stopped(s) ELSE Playing(s)
    IN  NoteInput(s0, keys, EndCall(Dispatch(BeginCall(s0, "play"))))

\* ------------------------------------------------------------- start-up
EmptyBoard == [y \in 0..(BOARD_HEIGHT - 1) |-> [x \in 0..(BOARD_WIDTH - 1) |-> 0]]

NoLabel == Label(0, "")

\* The TetrisGui and TetrisElement as constructed, before loadGameState.
Constructed(t0, t1, t2, t3) ==
    [ board |-> EmptyBoard,
      currentTetrimino |-> Tetrimino(t0),
      nextTetrimino |-> t1,
      nextTetrimino1 |-> t2,
      nextTetrimino2 |-> t3,
      storedTetrimino |-> -1,
      hasSwapped |-> FALSE,
      scoreValue |-> 0,
      maxHighScore |-> 0,
      linesCleared |-> 0,
      level |-> 1,
      linesClearedForLevelUp |-> 0,
      paused |-> FALSE,
      gameOver |-> FALSE,
      fallCounter |-> 0,
      lockDelayCounter |-> 0,
      lockDelayMoves |-> 0,
      timeSinceLastRotationOrMove |-> 0,
      elapsedSinceLastFrame |-> 0,
      totalSoftDropDistance |-> 0,
      lastWallKickApplied |-> FALSE,
      pieceWasKickedUp |-> FALSE,
      previousClearWasTetris |-> FALSE,
      previousClearWasTSpin |-> FALSE,
      backToBackCount |-> 1,
      linesClearedText |-> NoLabel,
      linesClearedScore |-> 0,
      keyTimers |-> [ leftHeld |-> FALSE, rightHeld |-> FALSE, downHeld |-> FALSE,
                      leftARR |-> FALSE, rightARR |-> FALSE, downARR |-> FALSE,
                      leftElapsed |-> 0, rightElapsed |-> 0, downElapsed |-> 0 ],
      ghost |-> GhostInit ]

\* TetrisGui::loadGameState of a save file holding every field.
loadGameState(s, save) ==
    LET s1 == setScore(s, save.score)
        s2 == [s1 EXCEPT !.maxHighScore = save.maxHighScore,
                         !.paused = save.paused,
                         !.gameOver = save.gameOver,
                         !.linesCleared = save.linesCleared,
                         !.level = save.level,
                         !.hasSwapped = save.hasSwapped,
                         !.lastWallKickApplied = save.lastWallKickApplied,
                         !.previousClearWasTetris = save.previousClearWasTetris,
                         !.previousClearWasTSpin = save.previousClearWasTSpin,
                         !.backToBackCount = save.backToBackCount,
                         !.currentTetrimino = save.currentTetrimino,
                         !.storedTetrimino = save.storedTetrimino,
                         !.nextTetrimino = save.nextTetrimino,
                         !.nextTetrimino1 = save.nextTetrimino1,
                         !.nextTetrimino2 = save.nextTetrimino2,
                         !.board = save.board]
    IN  [s2 EXCEPT !.ghost.op = "load",
                   !.ghost.highBeforeLoad = s1.maxHighScore]

\* --------------------------------------------------------------- bounds
\* Piece types rand() % 7 is taken to return: I and T.
Draws == {0, 5}

DefaultDraw == CHOOSE t \in Draws : TRUE

\* rand() is called at most 4 times in one handler call (resetGame); a call
\* that draws n times is given every choice of its first n draws.
DrawTuples(n) ==
    { [k \in 1..4 |-> IF k <= n THEN f[k] ELSE DefaultDraw] : f \in [1..n -> Draws] }

DefaultDraws == [k \in 1..4 |-> DefaultDraw]

\* A run makes at most MaxLocks placements and MaxResets restarts, goes on
\* for at most MaxPlayed handler calls after the last of them, and uses at
\* most MaxMoves of the maxLockDelayMoves resets of one piece.
MaxLocks == 1
MaxResets == 1
MaxPlayed == 1
MaxMoves == 2

Within ==
    /\ ghost.locks <= MaxLocks
    /\ ghost.resets <= MaxResets
    /\ ghost.played <= MaxPlayed
    /\ lockDelayMoves <= MaxMoves

\* The count of played for a call that took s0 to r.
Tally(s0, r) ==
    [r EXCEPT !.ghost.played =
        IF r.ghost.resets > s0.ghost.resets THEN 0
        ELSE IF s0.ghost.resets > 0 \/ s0.ghost.locks >= MaxLocks THEN @ + 1
        ELSE @]

\* --------------------------------------------------------- save files
\* A settled row of the stack: full but for one cell, at alternating ends.
Filler(y) ==
    [x \in 0..(BOARD_WIDTH - 1) |->
        IF x = (IF y % 2 = 0 THEN 0 ELSE BOARD_WIDTH - 1) THEN 0 ELSE 1]

\* A row that is free in the columns of free.
Open(free) == [x \in 0..(BOARD_WIDTH - 1) |-> IF x \in free THEN 0 ELSE 1]

\* The board whose rows 0 .. Len(top) - 1 are free in the columns top names,
\* over a stack of settled rows.
SeedBoard(top) ==
    [y \in 0..(BOARD_HEIGHT - 1) |->
        IF y < Len(top) THEN Open(top[y + 1]) ELSE Filler(y)]

\* The fields saveGameState writes (the destructor sets paused before it).
SaveOf(b, cur, queue, lv, score, high, over) ==
    [ score |-> score, maxHighScore |-> high, paused |-> TRUE, gameOver |-> over,
      linesCleared |-> 0, level |-> lv, hasSwapped |-> FALSE,
      lastWallKickApplied |-> FALSE, previousClearWasTetris |-> FALSE,
      previousClearWasTSpin |-> FALSE, backToBackCount |-> 1,
      currentTetrimino |-> cur, storedTetrimino |-> -1,
      nextTetrimino |-> queue[1], nextTetrimino1 |-> queue[2],
      nextTetrimino2 |-> queue[3],
      board |-> b ]

\* A fast level: an O piece that cannot leave its spawn position, followed
\* by an I piece that has no room to spawn.
SaveTight ==
    SaveOf(SeedBoard(<< 4..5 >>), SpawnPosition(3), <<0, 3, 3>>, 5, 0, 0, FALSE)

\* An O piece over a two-column well that it fills, with more O pieces to come.
SaveWell ==
    SaveOf(SeedBoard(<< 3..5, 4..5, 4..5 >>), SpawnPosition(3), <<3, 3, 3>>,
           1, 40, 60, FALSE)

\* A finished game whose file holds a high score below its score.
SaveOver ==
    SaveOf(SeedBoard(<< 4..5 >>), SpawnPosition(3), <<0, 3, 3>>, 1, 100, 50, TRUE)

Saves == { SaveTight, SaveWell, SaveOver }

\* An O piece lying in a pit three columns wide.
SaveStall ==
    SaveOf(SeedBoard(<< 3..5, 3..5 >>),
           [type |-> 3, rotation |-> 0, x |-> 3, y |-> 0], <<5, 0, 3>>,
           1, 0, 0, FALSE)

\* An I piece lying flat on the floor of a pit four columns wide.
SaveSpin ==
    SaveOf(SeedBoard(<< 3..6, 3..6, 3..6, 3..6 >>),
           [type |-> 0, rotation |-> 0, x |-> 3, y |-> 2], <<5, 0, 3>>,
           1, 0, 0, FALSE)

Key(held, down) == [held |-> held, down |-> down]

\* Milliseconds between two frames, and the keys of a frame.
Elapsed == {400}

Inputs ==
    { Key({}, {}), Key({"L"}, {"L"}), Key({"LEFT"}, {}),
      Key({"UP"}, {"UP"}), Key({"A"}, {"A"}), Key({"PLUS"}, {"PLUS"}) }

StallElapsed == {200}

StallInputs == { Key({}, {}), Key({"LEFT"}, {}), Key({"RIGHT"}, {}) }

SpinElapsed == {400}

SpinInputs ==
    { Key({}, {}), Key({"A"}, {"A"}), Key({"B"}, {"B"}) }

\* -------------------------------------------------------------- actions
\* The variables hold the record s.
Holds(s) ==
    /\ board = s.board
    /\ currentTetrimino = s.currentTetrimino
    /\ nextTetrimino = s.nextTetrimino
    /\ nextTetrimino1 = s.nextTetrimino1
    /\ nextTetrimino2 = s.nextTetrimino2
    /\ storedTetrimino = s.storedTetrimino
    /\ hasSwapped = s.hasSwapped
    /\ scoreValue = s.scoreValue
    /\ maxHighScore = s.maxHighScore
    /\ linesCleared = s.linesCleared
    /\ level = s.level
    /\ linesClearedForLevelUp = s.linesClearedForLevelUp
    /\ paused = s.paused
    /\ gameOver = s.gameOver
    /\ fallCounter = s.fallCounter
    /\ lockDelayCounter = s.lockDelayCounter
    /\ lockDelayMoves = s.lockDelayMoves
    /\ timeSinceLastRotationOrMove = s.timeSinceLastRotationOrMove
    /\ elapsedSinceLastFrame = s.elapsedSinceLastFrame
    /\ totalSoftDropDistance = s.totalSoftDropDistance
    /\ lastWallKickApplied = s.lastWallKickApplied
    /\ pieceWasKickedUp = s.pieceWasKickedUp
    /\ previousClearWasTetris = s.previousClearWasTetris
    /\ previousClearWasTSpin = s.previousClearWasTSpin
    /\ backToBackCount = s.backToBackCount
    /\ linesClearedText = s.linesClearedText
    /\ linesClearedScore = s.linesClearedScore
    /\ keyTimers = s.keyTimers
    /\ ghost = s.ghost

\* TetrisGui::TetrisGui(): four rand() % 7 pieces on an empty board.
Init ==
    \E t0 \in Draws, t1 \in Draws, t2 \in Draws, t3 \in Draws :
    \E s \in {Constructed(t0, t1, t2, t3)} :
        Holds(s)

\* createUI has run and the overlay has not been closed.
Running == ghost.op \notin {"init", "close"}

\* TetrisGui::createUI: loadGameState of the save file.
CreateUI(save) ==
    /\ ghost.op = "init"
    /\ \E r \in {loadGameState(St, save)} : Becomes(r)

\* One frame's TetrisGui::update, ms after the previous handler call.
Update(ms) ==
    /\ Running
    /\ \E s0 \in {St} :
       \E s1 \in {AdvanceTime(BeginCall(s0, "play"), ms)} :
       \E r0 \in {update(s1, DefaultDraws)} :
       \E draws \in DrawTuples(r0.ghost.nDrawn) :
       \E r1 \in {IF draws = DefaultDraws THEN r0 ELSE update(s1, draws)} :
       \E r \in {Tally(s0, r1)} :
           Becomes(r)

\* One frame's TetrisGui::handleInput.
HandleInput(keys) ==
    /\ Running
    /\ \E s0 \in {St} :
       \E r0 \in {handleInput(s0, keys, DefaultDraws, FALSE)} :
       \E draws \in DrawTuples(r0.ghost.nDrawn),
          oob \in (IF r0.ghost.oobRead THEN BOOLEAN ELSE {FALSE}) :
       \E r \in {IF draws = DefaultDraws /\ ~oob THEN Tally(s0, r0)
                 ELSE Tally(s0, handleInput(s0, keys, draws, oob))} :
           Becomes(r)

\* Overlay::onHide
OnHide ==
    /\ Running
    /\ ~paused
    /\ \E r \in {[BeginCall(St, "play") EXCEPT !.paused = TRUE]} : Becomes(r)

Next ==
    \/ \E save \in Saves : CreateUI(save)
    \/ \E ms \in Elapsed : Update(ms) /\ Within'
    \/ \E keys \in Inputs : HandleInput(keys) /\ Within'
    \/ OnHide

Spec == Init /\ [][Next]_vars

\* ------------------------------------------------- a piece on the floor
\* The game as it runs once the save has been loaded and PLUS has resumed it.
Resumed(save) ==
    handleInput(loadGameState(Constructed(DefaultDraw, DefaultDraw, DefaultDraw,
                                          DefaultDraw), save),
                Key({"PLUS"}, {"PLUS"}), DefaultDraws, FALSE)

\* The piece of the save is still the current piece.
FirstPiece == ghost.locks = 0

InitStall == \E s \in {Resumed(SaveStall)} : Holds(s)

NextStall ==
    \/ \E ms \in StallElapsed : FirstPiece /\ Update(ms)
    \/ \E keys \in StallInputs : FirstPiece /\ HandleInput(keys)

SpecStall == InitStall /\ [][NextStall]_vars

InitSpin == \E s \in {Resumed(SaveSpin)} : Holds(s)

NextSpin ==
    \/ \E ms \in SpinElapsed : FirstPiece /\ Update(ms)
    \/ \E keys \in SpinInputs : FirstPiece /\ HandleInput(keys)

\* update is called every frame: its ticks never stop.
SpecSpin ==
    /\ InitSpin
    /\ [][NextSpin]_vars
    /\ WF_vars(\E ms \in SpinElapsed : FirstPiece /\ Update(ms))

\* ------------------------------------------------------ pause and resume
PauseElapsed == {400}

\* Every key of the game on its own: the directions, hard drop, both
\* rotations (B closes the overlay while the game is paused), hold and pause.
PauseInputs ==
    { Key({}, {}), Key({"LEFT"}, {}), Key({"RIGHT"}, {}), Key({"DOWN"}, {}),
      Key({"UP"}, {"UP"}), Key({"A"}, {"A"}), Key({"B"}, {"B"}),
      Key({"L"}, {"L"}), Key({"PLUS"}, {"PLUS"}) }

\* The keys of the dispatches are recorded in this specification.
InitPause == \E s \in {[Resumed(SaveStall) EXCEPT !.ghost.watch = TRUE]} : Holds(s)

\* The piece of the save is the current piece and the hold slot is empty.
Unheld == FirstPiece /\ storedTetrimino = -1

NextPause ==
    \/ \E ms \in PauseElapsed : Unheld /\ Update(ms) /\ Within'
    \/ \E keys \in PauseInputs : Unheld /\ HandleInput(keys) /\ Within'
    \/ Unheld /\ OnHide

SpecPause == InitPause /\ [][NextPause]_vars

\* ----------------------------------------------------- clearLines alone
\* A board as a lock leaves it: the rows of full are full, a row y of part
\* holds y % 9 + 1 cells of the value y % 7 + 1, the other rows are empty.
RowsBoard(full, part) ==
    [y \in 0..(BOARD_HEIGHT - 1) |->
        [x \in 0..(BOARD_WIDTH - 1) |->
            IF y \in full THEN 1
            ELSE IF y \in part /\ x < (y % 9) + 1 THEN (y % 7) + 1
            ELSE 0]]

\* The full rows of a board.
FullRows(b) == {y \in 0..(BOARD_HEIGHT - 1) : FullLine(b, y)}

\* No full row; one, two, three and four full rows at the bottom; full rows
\* that are not adjacent; a full top row.
ClearBoards ==
    { RowsBoard({}, {18, 19}),
      RowsBoard({19}, {17, 18}),
      RowsBoard({18, 19}, {16, 17}),
      RowsBoard({17, 18, 19}, {15, 16}),
      RowsBoard({16, 17, 18, 19}, {14, 15}),
      RowsBoard({15, 17, 19}, {14, 16, 18}),
      RowsBoard({0, 19}, {1, 18}) }

\* The piece that was placed: a T whose centre is in the bottom row, with two
\* of its corners below the board, and an I.
ClearPieces ==
    { [type |-> 5, rotation |-> 0, x |-> 0, y |-> 18],
      [type |-> 0, rotation |-> 1, x |-> 7, y |-> 16] }

\* Lines cleared after which no further clear is made.
MaxCleared == 7

\* A game loaded at level lv with nothing cleared yet.
InitClear ==
    \E lv \in 1..2 :
    \E s \in {loadGameState(Constructed(DefaultDraw, DefaultDraw, DefaultDraw,
                                         DefaultDraw),
                             SaveOf(EmptyBoard, SpawnPosition(0), <<0, 0, 0>>,
                                    lv, 0, 0, FALSE))} :
        Holds(s)

\* TetrisGui::clearLines, called with the board b, the placed piece tet and
\* lastWallKickApplied = kick.
ClearLines(b, tet, kick) ==
    /\ linesCleared < MaxCleared
    /\ \E s \in {[BeginCall(St, "clear") EXCEPT !.board = b,
                                                !.currentTetrimino = tet,
                                                !.lastWallKickApplied = kick,
                                                !.ghost.given = b]} :
       \E r \in {clearLines(s)} :
       \E n \in {Cardinality(FullRows(b))} :
       \E q \in {n = 4 \/ isTSpin(r)} :
           Becomes([r EXCEPT
               !.ghost.chain = IF n = 0 THEN @ ELSE IF q THEN @ + 1 ELSE 0,
               !.ghost.tetrises = IF n = 0 THEN @ ELSE IF n = 4 THEN @ + 1 ELSE 0])

NextClear ==
    \E b \in ClearBoards, tet \in ClearPieces, kick \in BOOLEAN :
        ClearLines(b, tet, kick)

SpecClear == InitClear /\ [][NextClear]_vars

\* ------------------------------------------------------ lines and levels
\* A new game: level 1, nothing cleared.
SaveFresh == SaveOf(EmptyBoard, SpawnPosition(0), <<0, 0, 0>>, 1, 0, 0, FALSE)

\* The k bottom rows full but for column 0, under an empty board.
WellBoard(k) ==
    [y \in 0..(BOARD_HEIGHT - 1) |->
        IF y >= BOARD_HEIGHT - k THEN Open({0})
        ELSE [x \in 0..(BOARD_WIDTH - 1) |-> 0]]

\* The I piece standing in column col at the top of the board.
UprightI(col) ==
    CHOOSE t \in [type : {0}, rotation : {1}, x : (-3)..(BOARD_WIDTH - 1), y : {0}] :
        \A c \in Occupied(t) : c[1] = col

\* The positions a piece is dropped from: an I piece over a well of 1 and of
\* 4 rows, and the O piece of SaveTight, which locks above the top.
LevelLocks ==
    { <<WellBoard(k), UprightI(0)>> : k \in {1, 4} }
        \cup { <<SeedBoard(<< 4..5 >>), SpawnPosition(3)>> }

\* Lines cleared in one game after which no further piece is dropped.
MaxLines == 9

InitLevel == \E s \in {Resumed(SaveFresh)} : Holds(s)

\* TetrisGui::hardDrop of the piece tet on the board b.
LockOn(b, tet) ==
    /\ ~Halted(St)
    /\ linesCleared < MaxLines
    /\ \E s \in {[BeginCall(St, "play") EXCEPT !.board = b,
                                               !.currentTetrimino = tet]} :
       \E r \in {EndCall(hardDrop(s, DefaultDraws))} :
           Becomes(r)

NextLevel ==
    \/ \E lock \in LevelLocks : LockOn(lock[1], lock[2])
    \/ gameOver /\ ghost.resets < MaxResets /\ HandleInput(Key({"A"}, {"A"}))

SpecLevel == InitLevel /\ [][NextLevel]_vars

\* ------------------------------------------------------- held directions
\* An O piece on the floor of a pit three columns wide and six rows deep:
\* the pieces after it have room to spawn.
SaveDeep ==
    SaveOf(SeedBoard(<< 3..5, 3..5, 3..5, 3..5, 3..5, 3..5 >>),
           [type |-> 3, rotation |-> 0, x |-> 3, y |-> 4], <<5, 0, 3>>,
           1, 0, 0, FALSE)

\* Frames 100 ms apart: the DAS delay ends with the third frame after a
\* press, every later frame is past the ARR interval, and two dispatches
\* with no frame between them are within it.
KeysElapsed == {100}

KeysInputs == { Key({}, {}), Key({"LEFT"}, {}), Key({"RIGHT"}, {}), Key({"DOWN"}, {}) }

\* The keys of the dispatches are recorded in this specification.
InitKeys == \E s \in {[Resumed(SaveDeep) EXCEPT !.ghost.watch = TRUE]} : Holds(s)

NextKeys ==
    \/ \E ms \in KeysElapsed : Update(ms) /\ Within'
    \/ \E keys \in KeysInputs : HandleInput(keys) /\ Within'

SpecKeys == InitKeys /\ [][NextKeys]_vars

\* ------------------------------------------------------ down on the floor
DownElapsed == {400}

DownInputs == { Key({}, {}), Key({"B"}, {"B"}), Key({"DOWN"}, {}) }

InitDown == \E s \in {Resumed(SaveSpin)} : Holds(s)

NextDown ==
    \/ \E ms \in DownElapsed : FirstPiece /\ Update(ms)
    \/ \E keys \in DownInputs : FirstPiece /\ HandleInput(keys)

SpecDown == InitDown /\ [][NextDown]_vars

\* ------------------------------------------------------ rotation alone
\* A shaft one column wide and ShaftDepth rows deep.
ShaftDepth == 9

RotateBoards ==
    { EmptyBoard, SeedBoard(<< 3..5, 4..5, 4..5 >>),
      SeedBoard(<< 0..9, 0..9, 3..6, 3..6, 4..5 >>),
      SeedBoard([y \in 1..ShaftDepth |-> {4}]) }

RotateXs == -2..8

RotateYs == -2..4

\* Any board of RotateBoards with any piece in a valid position.
InitRotate ==
    \E b \in RotateBoards :
    \E tet \in { t \in [type : 0..6, rotation : 0..3, x : RotateXs, y : RotateYs] :
                     isPositionValid(t, b) } :
    \E s \in {[Constructed(tet.type, DefaultDraw, DefaultDraw, DefaultDraw)
                   EXCEPT !.board = b, !.currentTetrimino = tet]} :
        Holds(s)

\* One call of rotate().
Rotate ==
    /\ ghost.op = "init"
    /\ \E oob \in BOOLEAN :
       \E r \in {rotate(BeginCall(St, "play"), oob).s} : Becomes(r)

\* One call of rotateCounterclockwise().
RotateCounterclockwise ==
    /\ ghost.op = "init"
    /\ \E oob \in BOOLEAN :
       \E r \in {rotateCounterclockwise(BeginCall(St, "play"), oob).s} : Becomes(r)

NextRotate == Rotate \/ RotateCounterclockwise

SpecRotate == InitRotate /\ [][NextRotate]_vars

\* ------------------------------------------------------- a late frame
\* Level 9 (100 ms a row): an O piece at the top of a pit three columns wide
\* and six rows deep.
SaveFall ==
    SaveOf(SeedBoard(<< 3..5, 3..5, 3..5, 3..5, 3..5, 3..5 >>),
           [type |-> 3, rotation |-> 0, x |-> 3, y |-> 0], <<5, 0, 3>>,
           9, 0, 0, FALSE)

\* A frame in time and a frame that is late by more than one row.
FallElapsed == {100, 250}

FallInputs == { Key({}, {}), Key({"LEFT"}, {}) }

InitFall == \E s \in {Resumed(SaveFall)} : Holds(s)

NextFall ==
    \/ \E ms \in FallElapsed : FirstPiece /\ Update(ms)
    \/ \E keys \in FallInputs : FirstPiece /\ HandleInput(keys)

SpecFall == InitFall /\ [][NextFall]_vars

\* ------------------------------------------------- hold over a high stack
\* An O piece falling into a well on the right of a stack that reaches row 1,
\* with a T piece in the hold slot.
SaveHeld ==
    [SaveOf(SeedBoard(<< 0..9, 6..9, 6..9, 6..9, 6..9, 6..9 >>),
            [type |-> 3, rotation |-> 0, x |-> 7, y |-> 2], <<0, 3, 3>>,
            1, 0, 0, FALSE)
        EXCEPT !.storedTetrimino = 5]

HoldElapsed == {400}

HoldInputs ==
    { Key({}, {}), Key({"L"}, {"L"}), Key({"UP"}, {"UP"}), Key({"LEFT"}, {}),
      Key({"DOWN"}, {}) }

InitHold == \E s \in {Resumed(SaveHeld)} : Holds(s)

NextHold ==
    \/ \E ms \in HoldElapsed : FirstPiece /\ Update(ms)
    \/ \E keys \in HoldInputs : FirstPiece /\ HandleInput(keys)

SpecHold == InitHold /\ [][NextHold]_vars

\* ------------------------------------------------- moves and rotations
\* Calls of move and of the rotations made on one piece.
MaxTurns == 2

\* A pit, and a tunnel under an overhang.
TurnBoards ==
    { SeedBoard(<< 0..9, 0..9, 3..6, 3..6, 4..5 >>),
      SeedBoard(<< 0..9, 0..9, 3..6, 3..5, 0..9 >>) }

\* A piece in a valid position, 300 ms into its lock delay.
InitTurn ==
    \E b \in TurnBoards :
    \E tet \in { t \in [type : 0..6, rotation : 0..3, x : RotateXs, y : RotateYs] :
                     isPositionValid(t, b) } :
    \E s \in {[Constructed(tet.type, DefaultDraw, DefaultDraw, DefaultDraw)
                   EXCEPT !.board = b, !.currentTetrimino = tet,
                          !.fallCounter = 200, !.lockDelayCounter = 300,
                          !.timeSinceLastRotationOrMove = 400]} :
        Holds(s)

\* One call of rotatePiece(direction).
Turn(direction) ==
    /\ ghost.played < MaxTurns
    /\ \E oob \in BOOLEAN :
       \E r \in {rotatePiece(BeginCall(St, "play"), direction, oob)} :
           Becomes([r EXCEPT !.ghost.played = @ + 1])

\* One call of move(dx, dy).
Step(dx, dy) ==
    /\ ghost.played < MaxTurns
    /\ \E oob \in BOOLEAN :
       \E m \in {move(BeginCall(St, "play"), dx, dy, oob)} :
           Becomes([m.s EXCEPT !.ghost.played = @ + 1,
                               !.ghost.turn = IF m.success THEN "moved" ELSE "blocked"])

NextTurn ==
    \/ \E direction \in {-1, 1} : Turn(direction)
    \/ \E d \in { <<-1, 0>>, <<1, 0>>, <<0, 1>> } : Step(d[1], d[2])

SpecTurn == InitTurn /\ [][NextTurn]_vars

\* ------------------------------------------------- a T piece and its slot
\* A slot for a T piece under an overhang: the T pointing down at x 3, y 17
\* completes rows 18 and 19.
TSpinBoard ==
    [y \in 0..(BOARD_HEIGHT - 1) |->
        Open(CASE y = 19 -> {4}
               [] y = 18 -> 3..5
               [] y = 17 -> 4..9
               [] OTHER -> 0..(BOARD_WIDTH - 1))]

TSpinYs == 14..18

\* A T piece in a valid position near the slot.
InitTSpin ==
    \E tet \in { t \in [type : {5}, rotation : 0..3, x : RotateXs, y : TSpinYs] :
                     isPositionValid(t, TSpinBoard) } :
    \E s \in {[Constructed(5, DefaultDraw, DefaultDraw, DefaultDraw)
                   EXCEPT !.board = TSpinBoard, !.currentTetrimino = tet]} :
        Holds(s)

\* One call of hardDrop on the piece in play.
Lock ==
    \E r \in {EndCall(hardDrop(BeginCall(St, "play"), DefaultDraws))} : Becomes(r)

NextTSpin ==
    \/ \E direction \in {-1, 1} : FirstPiece /\ Turn(direction)
    \/ \E d \in { <<-1, 0>>, <<1, 0>>, <<0, 1>> } : FirstPiece /\ Step(d[1], d[2])
    \/ FirstPiece /\ Lock

SpecTSpin == InitTSpin /\ [][NextTSpin]_vars

\* ------------------------------------------- draw beside a hard drop
\* TetrisElement::draw on one thread and TetrisGui::hardDrop on another,
\* each taking the mutexes where its code takes them.  A step is what a
\* thread does between two points at which the other can run: draw reads the
\* board row by row without a mutex, then the piece under boardMutex, then
\* takes particleMutex in updateParticles while it still holds boardMutex.
InitDraw ==
    \E tet \in { t \in [type : {5}, rotation : 0..3, x : RotateXs, y : TSpinYs] :
                     isPositionValid(t, TSpinBoard) } :
    \E s \in {[Constructed(5, DefaultDraw, DefaultDraw, DefaultDraw)
                   EXCEPT !.board = TSpinBoard, !.currentTetrimino = tet,
                          !.ghost.op = "play",
                          !.ghost.threads =
                              [NoThreads EXCEPT !.dpc = "board", !.epc = "drop",
                                                !.before = <<TSpinBoard, tet>>]]} :
        Holds(s)

\* draw: "for (y) for (x) if ((*board)[y][x] != 0)", one row.
DrawRow ==
    /\ ghost.threads.dpc = "board"
    /\ \E y \in {ghost.threads.row} :
       Becomes([St EXCEPT
           !.ghost.threads.seenBoard = Append(@, board[y]),
           !.ghost.threads.row = y + 1,
           !.ghost.threads.dpc = IF y + 1 = BOARD_HEIGHT THEN "lockB" ELSE "board"])

\* draw: "std::lock_guard<std::mutex> lock(boardMutex)".
DrawLockBoard ==
    /\ ghost.threads.dpc = "lockB" /\ ghost.threads.boardMutex = ""
    /\ Becomes([St EXCEPT !.ghost.threads.boardMutex = "draw",
                          !.ghost.threads.dpc = "piece"])

\* draw: drawTetrimino(renderer, *currentTetrimino, ...).
DrawPiece ==
    /\ ghost.threads.dpc = "piece"
    /\ Becomes([St EXCEPT !.ghost.threads.seenPiece = currentTetrimino,
                          !.ghost.threads.dpc = "lockP"])

\* updateParticles: "std::lock_guard<std::mutex> lock(particleMutex)".
DrawLockParticles ==
    /\ ghost.threads.dpc = "lockP" /\ ghost.threads.particleMutex = ""
    /\ Becomes([St EXCEPT !.ghost.threads.particleMutex = "draw",
                          !.ghost.threads.dpc = "particles"])

\* The particles are updated and drawn and draw returns: both guards go.
DrawReturn ==
    /\ ghost.threads.dpc = "particles"
    /\ Becomes([St EXCEPT !.ghost.threads.particleMutex = "",
                          !.ghost.threads.boardMutex = "",
                          !.ghost.threads.dpc = "done"])

\* hardDrop: the piece is lowered and the drop is paid.
DropPiece ==
    /\ ghost.threads.epc = "drop"
    /\ \E d \in {calculateDropDistance(currentTetrimino, board)} :
       \E r \in {hardDropAward([BeginCall(St, "play") EXCEPT
                                    !.currentTetrimino.y = @ + d], d)} :
           Becomes([r EXCEPT !.ghost.threads.epc = "impact"])

\* createImpactParticles: particleMutex taken and released.
ImpactParticles ==
    /\ ghost.threads.epc = "impact" /\ ghost.threads.particleMutex = ""
    /\ Becomes([St EXCEPT !.ghost.threads.epc = "place"])

\* placeTetrimino: boardMutex taken, the cells written, boardMutex released.
PlacePiece ==
    /\ ghost.threads.epc = "place" /\ ghost.threads.boardMutex = ""
    /\ \E r \in {placeTetrimino(St)} :
           Becomes([r EXCEPT !.ghost.threads.epc = "clearP"])

\* clearLines: "std::lock_guard<std::mutex> particleLock(particleMutex)".
ClearLockParticles ==
    /\ ghost.threads.epc = "clearP" /\ ghost.threads.particleMutex = ""
    /\ Becomes([St EXCEPT !.ghost.threads.particleMutex = "engine",
                          !.ghost.threads.epc = "clearB"])

\* clearLines: "std::lock_guard<std::mutex> lock(boardMutex)".
ClearLockBoard ==
    /\ ghost.threads.epc = "clearB" /\ ghost.threads.boardMutex = ""
    /\ Becomes([St EXCEPT !.ghost.threads.boardMutex = "engine",
                          !.ghost.threads.epc = "clear"])

\* clearLines under both mutexes, released when it returns.
ClearRows ==
    /\ ghost.threads.epc = "clear"
    /\ \E r \in {clearLines(St)} :
           Becomes([r EXCEPT !.ghost.threads.particleMutex = "",
                             !.ghost.threads.boardMutex = "",
                             !.ghost.threads.epc = "spawn"])

\* hardDrop: spawnNewTetrimino and the validity test, no mutex taken.
SpawnPiece ==
    /\ ghost.threads.epc = "spawn"
    /\ \E r \in {spawnNewTetrimino(St, DefaultDraws)} :
       \E e \in {IF ~isPositionValid(r.currentTetrimino, r.board)
                  THEN SetGameOver(r) ELSE r} :
           Becomes([e EXCEPT !.totalSoftDropDistance = 0,
                             !.ghost.threads.epc = "done"])

NextDraw ==
    \/ DrawRow \/ DrawLockBoard \/ DrawPiece \/ DrawLockParticles \/ DrawReturn
    \/ DropPiece \/ ImpactParticles \/ PlacePiece \/ ClearLockParticles
    \/ ClearLockBoard \/ ClearRows \/ SpawnPiece

SpecDraw == InitDraw /\ [][NextDraw]_vars

\* ------------------------------------------------------- shape loops
\* The loop "for i, for j: rotatedIndex = getRotatedIndex(type, i, j,
\* rotation); if (tetriminoShapes[type][rotatedIndex] != 0)" that
\* isPositionValid, isOnFloor, placeTetrimino and spawnNewTetrimino share, for
\* every piece type and rotation on the empty board and every box cell.
InitShape ==
    \E tet \in [type : 0..6, rotation : 0..3, x : {3}, y : {0}] :
    \E c \in (0..3) \X (0..3) :
    \E s \in {[Constructed(tet.type, DefaultDraw, DefaultDraw, DefaultDraw)
                   EXCEPT !.currentTetrimino = tet,
                          !.ghost.probe = [NoProbe EXCEPT !.i = c[1], !.j = c[2],
                                                          !.step = "drawn"]]} :
        Holds(s)

\* One pass of the loop body: the mask is indexed with what getRotatedIndex
\* returned.
ReadMask ==
    /\ ghost.probe.step = "drawn"
    /\ Becomes([St EXCEPT
           !.ghost.probe.index =
               getRotatedIndex(currentTetrimino.type, ghost.probe.i,
                               ghost.probe.j, currentTetrimino.rotation),
           !.ghost.probe.step = "read"])

\* The whole loop: the box cells whose index is that of a non-zero mask cell.
CountCells ==
    /\ ghost.probe.step = "read"
    /\ Becomes([St EXCEPT
           !.ghost.probe.occupied =
               {c \in (0..3) \X (0..3) :
                   \E rotatedIndex \in {getRotatedIndex(currentTetrimino.type, c[1], c[2],
                                                        currentTetrimino.rotation)} :
                       /\ rotatedIndex >= 0
                       /\ tetriminoShapes[currentTetrimino.type + 1][rotatedIndex + 1] # 0},
           !.ghost.probe.step = "counted"])

NextShape == ReadMask \/ CountCells

SpecShape == InitShape /\ [][NextShape]_vars

\* ----------------------------------------------------- hard drop alone
\* One call of hardDrop().
HardDrop ==
    /\ ghost.op = "init"
    /\ \E r \in {EndCall(hardDrop(BeginCall(St, "play"), DefaultDraws))} : Becomes(r)

NextDrop == HardDrop

SpecDrop == InitRotate /\ [][NextDrop]_vars

\* ------------------------------------------------------------ properties
\* C1: from a valid position, a call of rotate or rotateCounterclockwise
\* leaves the piece in a position isPositionValid accepts or leaves it as it
\* was, and a rotation that failed leaves rotation, x and y as before the
\* call: no kicked candidate stays applied.
RotationEndsValidOrUnchanged ==
    [][isPositionValid(currentTetrimino, board) =>
          /\ \/ isPositionValid(currentTetrimino', board')
             \/ currentTetrimino' = currentTetrimino
          /\ ghost'.turn = "failed" => currentTetrimino' = currentTetrimino]_vars

\* A rotation has tried every kick, found none that fits and reverted.
RotationReverted ==
    /\ ghost.turn = "failed"
    /\ currentTetrimino.type # 3
    /\ isPositionValid(currentTetrimino, board)

\* C2: the score never goes down from one state to the next, except in a
\* step that runs resetGame, which leaves it 0.
ScoreNeverDecreases ==
    [][\/ scoreValue' >= scoreValue
       \/ ghost'.op = "reset" /\ scoreValue' = 0]_vars

\* A hard drop or a lock has added to a score that was not 0.
ScoreRaisedByLock ==
    /\ ghost.op = "play"
    /\ ghost.nPlaced > 0
    /\ ghost.resets = 0
    /\ scoreValue > SaveWell.score

\* C3: loadGameState keeps the larger of the maxHighScore it reads and the
\* one in memory: after a load maxHighScore is not below the value it
\* replaced.
HighScoreKeptByLoad ==
    ghost.op = "load" => maxHighScore >= ghost.highBeforeLoad

\* The part of the game a refused hold must leave alone.
HoldFrame ==
    << currentTetrimino, storedTetrimino, nextTetrimino, nextTetrimino1,
       nextTetrimino2, board >>

\* C4 (as claimed): with hasSwapped set, a dispatch of the hold key changes
\* neither the current piece, the hold slot, the three next pieces nor the
\* board, and hasSwapped is cleared only by a step that places a piece.
HoldGatedUntilLock ==
    [][/\ ghost'.holdDenied => UNCHANGED HoldFrame
       /\ hasSwapped /\ ~hasSwapped' => ghost'.nPlaced > 0]_vars

\* C4 (amended): with hasSwapped set, a dispatch of the hold key changes
\* neither the current piece, the hold slot, the three next pieces nor the
\* board, and hasSwapped is cleared only by a step that places a piece or
\* that restarts the game.
HoldGatedUntilLockOrRestart ==
    [][/\ ghost'.holdDenied => UNCHANGED HoldFrame
       /\ hasSwapped /\ ~hasSwapped' =>
              ghost'.nPlaced > 0 \/ ghost'.op = "reset"]_vars

\* The hold key has been pressed a second time for the same piece.
SecondHoldDenied ==
    /\ ghost.holdDenied
    /\ hasSwapped
    /\ storedTetrimino # -1

\* C5: when update places the piece, lockDelayCounter and the time since
\* lastRotationOrMoveTime have both reached 500 ms.
GravityLockNeedsBothClocks ==
    ghost.byGravity =>
        /\ ghost.clocks[1] >= lockDelayTime
        /\ ghost.clocks[2] >= lockDelayExtension

\* update has placed a piece.
LockedByGravity ==
    /\ ghost.byGravity
    /\ ghost.nPlaced = 1

\* C6: a dispatch in which a horizontal move or a rotation succeeds on the
\* floor with lockDelayMoves at maxLockDelayMoves leaves lockDelayCounter
\* and the time since lastRotationOrMoveTime as they were.
CapDeniesResets ==
    [][ghost'.capMove =>
          /\ lockDelayCounter' = lockDelayCounter
          /\ timeSinceLastRotationOrMove' = timeSinceLastRotationOrMove]_vars

\* C7: with update called for ever, whatever rotations are put in, the
\* piece is eventually placed.
PieceEventuallyLocked == <>(ghost.locks > 0)

\* C8 (as claimed): a piece that rested at level 1 after the last input has
\* been placed once update has counted 1000 ms since that input.
LockedWithinSecond ==
    ghost.rested /\ ghost.idle >= 1000 =>
        ghost.lockedSince

\* C8 (amended): a piece that rested at level 1 after the last input has
\* been placed once update has made two gravity steps since that input, and
\* when update places a piece the new current piece has the type of the
\* former next piece.
LockedBySecondStep ==
    /\ [](ghost.rested /\ ghost.ticks >= 2 => ghost.lockedSince)
    /\ [][ghost'.byGravity =>
             /\ currentTetrimino'.type = nextTetrimino
             /\ currentTetrimino' = SpawnPosition(nextTetrimino)]_vars

\* A resting piece was not placed by the first gravity step after the last
\* input and was placed by the second.
LockedAtSecondStep ==
    /\ ghost.rested
    /\ ghost.ticks = 2
    /\ ghost.byGravity
    /\ ghost.lockedSince

\* C9 (as claimed): a step takes gameOver from false to true if and only if
\* in that step a freshly spawned piece is not in a valid position or a piece
\* is placed with a cell at y < 0.
GameOverOnlyBySpawnOrTopOut ==
    [][(~gameOver /\ gameOver') <=>
       (~gameOver /\ (ghost'.spawnInvalid \/ ghost'.aboveTop))]_vars

\* C9 (amended): a step takes gameOver from false to true if and only if in
\* that step a freshly spawned piece is not in a valid position, or a piece
\* is placed with a cell at y < 0, or loadGameState restores a save whose
\* gameOver flag is set.
GameOverIffSpawnOrTopOut ==
    [][(~gameOver /\ gameOver') <=>
       (~gameOver /\ (\/ ghost'.spawnInvalid
                      \/ ghost'.aboveTop
                      \/ ghost'.op = "load" /\ gameOver'))]_vars

\* The game has just ended by a spawn that does not fit or a placement
\* above the top.
GameOverBySpawnOrTopOut ==
    /\ gameOver
    /\ ghost.op = "play"
    /\ ghost.spawnInvalid \/ ghost.aboveTop

\* C10: once gameOver is set the game stays as it is until resetGame: the
\* handler call that sets it changes nothing afterwards, and no later step
\* changes the board, the pieces, the hold slot, the score, the lines or the
\* level unless it restarts the game.
OverMeansFrozen ==
    /\ [](~ghost.thawed)
    /\ [][gameOver /\ ghost'.op # "reset" =>
             UNCHANGED << board, currentTetrimino, nextTetrimino,
                          nextTetrimino1, nextTetrimino2, storedTetrimino,
                          scoreValue, linesCleared, level >>]_vars

\* The game and its fall and lock timers.
PauseFrame ==
    << board, currentTetrimino, nextTetrimino, nextTetrimino1, nextTetrimino2,
       storedTetrimino, scoreValue, linesCleared, level, hasSwapped,
       fallCounter, lockDelayCounter, lockDelayMoves >>

PausedTimeNotCounted ==
    [][ghost'.fell =>
          \E ms \in PauseElapsed : fallCounter + ms >= getFallSpeed(level)]_vars

\* ------------------------------------------------------------ line clears
\* The rows a clear step removed, and what it added to the score.
ClearedNow == linesCleared' - linesCleared
ScoreDelta == scoreValue' - scoreValue

\* The placed piece was a T-spin, as the clear saw it on the cleared board.
TSpinNow ==
    isTSpin([currentTetrimino |-> currentTetrimino', board |-> board',
             lastWallKickApplied |-> lastWallKickApplied'])

\* The base score of the table for n rows.
TableBase(n, tSpin) ==
    CASE n = 1 -> IF tSpin THEN 400 ELSE 100
      [] n = 2 -> IF tSpin THEN 700 ELSE 300
      [] n = 3 -> 500
      [] n = 4 -> 800

\* C13: a clear of n >= 1 rows at level L adds trunc(base * m) * L to the
\* score, with base from the table and m = 1.5 exactly when the back-to-back
\* bonus applies; 4 rows at level 1 with no back-to-back state before give
\* 800, the label "Tetris", previousClearWasTetris and backToBackCount = 1.
ClearScoreByTable ==
    [][ghost'.op = "clear" /\ ClearedNow >= 1 =>
          LET n == ClearedNow
              qualifying == n = 4 \/ TSpinNow
              bonus == qualifying /\ (previousClearWasTetris \/ previousClearWasTSpin)
              base == TableBase(n, TSpinNow)
              added == (IF bonus THEN (base * 15) \div 10 ELSE base) * level
          IN  /\ n \in 1..4
              /\ ScoreDelta = added
              /\ linesClearedScore' = added
              /\ (n = 4 /\ level = 1 /\ ~previousClearWasTetris
                        /\ ~previousClearWasTSpin)
                    => /\ ScoreDelta = 800
                       /\ linesClearedText' = Label(0, "Tetris")
                       /\ previousClearWasTetris'
                       /\ backToBackCount' = 1]_vars

\* A T-spin double that follows a Tetris at level 2 has been paid with the bonus.
BonusTSpinDoublePaid ==
    /\ ghost.op = "clear" /\ level = 2 /\ linesCleared = 6
    /\ previousClearWasTSpin /\ backToBackCount = 2
    /\ linesClearedScore = 2100

\* C14 as stated: the k-th Tetris in a row (k >= 2) at level 1 scores 1200
\* and is labelled "<k>x Tetris".
KthTetrisLabelledK ==
    [][ghost'.op = "clear" /\ ClearedNow = 4 /\ level = 1 /\ ghost'.tetrises >= 2 =>
          /\ ScoreDelta = 1200
          /\ linesClearedText' = Label(ghost'.tetrises, "x Tetris")]_vars

\* C14: the bonus applies to a clear exactly when it and the line clear before
\* it are both qualifying (4 rows, or a T-spin); backToBackCount is 1 after a
\* clear without the bonus and one more after a clear with it, so the k-th
\* qualifying clear in a row (k >= 2), when it is a Tetris at level 1, scores
\* 1200 and is labelled "<k>x Tetris".
BackToBackChain ==
    [][ghost'.op = "clear" /\ ClearedNow >= 1 =>
          LET n == ClearedNow
              qualifying == n = 4 \/ TSpinNow
              bonus == qualifying /\ ghost.chain >= 1
          IN  /\ (ScoreDelta # TableBase(n, TSpinNow) * level) = bonus
              /\ backToBackCount' = IF bonus THEN backToBackCount + 1 ELSE 1
              /\ ~qualifying => backToBackCount' = 1
              /\ backToBackCount' = IF qualifying THEN ghost'.chain ELSE 1
              /\ (n = 4 /\ level = 1 /\ ghost'.chain >= 2)
                    => /\ ScoreDelta = 1200
                       /\ linesClearedText' = Label(ghost'.chain, "x Tetris")]_vars

\* The second Tetris in a row came after a T-spin clear: the third clear of the chain.
SecondTetrisThirdOfChain ==
    /\ ghost.op = "clear" /\ ghost.tetrises = 2 /\ ghost.chain = 3
    /\ linesClearedText = Label(3, "x Tetris")

\* The non-full rows of b in their order at the bottom, under as many empty
\* rows as b has full rows.
Compacted(b) ==
    LET Rows(full) ==
            LET Kept(m) == CHOOSE i \in 0..(BOARD_HEIGHT - 1) :
                               /\ i \notin full
                               /\ Cardinality({j \in 0..i : j \notin full}) = m
            IN  [y \in 0..(BOARD_HEIGHT - 1) |->
                    IF y < Cardinality(full) THEN [x \in 0..(BOARD_WIDTH - 1) |-> 0]
                    ELSE b[Kept(y - Cardinality(full) + 1)]]
    IN  Bind(FullRows(b), Rows)

\* C19: clearLines leaves the non-full rows of its input in their order at
\* the bottom under one empty row for each full row, and counts the full
\* rows, adjacent or not.
ClearCompacts ==
    [][ghost'.op = "clear" =>
          /\ board' = Compacted(ghost'.given)
          /\ ClearedNow = Cardinality(FullRows(ghost'.given))]_vars

\* Three full rows that were not adjacent have been cleared.
ClearedApart ==
    /\ ghost.op = "clear"
    /\ FullRows(ghost.given) = {15, 17, 19}
    /\ board = Compacted(ghost.given)

\* C15: the level is 1 + floor(linesCleared / 10) after any sequence of
\* locks, line clears and restarts.
LevelFromLines == level = 1 + linesCleared \div LINES_PER_LEVEL

\* C16: a direction held from a press at t0 makes one attempt at t0, none
\* before t0 + DAS, later attempts at least ARR apart, at most one attempt in
\* a dispatch, and none while it is not held, so that a release makes the
\* next press a first press.  The hard drop that takes the place of a
\* downward move of a resting piece counts as the attempt of down.
HeldDirectionShaped ==
    [][~paused /\ ~gameOver =>
          \A d \in Directions :
              LET at == ghost'.att[d]
                  held == d \in ghost'.keys
                  before == d \in ghost.heldKeys
              IN  /\ at <= 1
                  /\ ~held => at = 0
                  /\ held /\ ~before => at = 1
                  /\ held /\ before /\ ghost.heldFor[d] < DAS => at = 0
                  /\ held /\ before /\ at = 1 => ghost.sinceAttempt[d] >= ARR]_vars

\* C17: when down fires on a resting piece, no downward move is made and the
\* piece is hard-dropped and locked in the same dispatch; when it fires on a
\* piece that is not resting, the piece moves down one row and is not locked.
DownLocksOnlyResting ==
    [][ghost'.downAt # <<>> =>
          IF ghost'.downAt.resting
          THEN ghost'.floorDrop /\ ghost'.nPlaced = 1
          ELSE /\ ~ghost'.floorDrop
               /\ ghost'.nPlaced = 0
               /\ currentTetrimino' = [ghost'.downAt.piece EXCEPT !.y = @ + 1]]_vars

\* The largest number of rows the piece can go down through valid positions.
MaxDrop(tet, b) ==
    CHOOSE d \in 0..(BOARD_HEIGHT + 4) :
        /\ \A k \in 0..d : isPositionValid([tet EXCEPT !.y = @ + k], b)
        /\ ~isPositionValid([tet EXCEPT !.y = @ + d + 1], b)

\* The board with the cells of the piece written into it.
PlacedOn(b, tet) ==
    [y \in 0..(BOARD_HEIGHT - 1) |->
        [x \in 0..(BOARD_WIDTH - 1) |->
            IF <<x, y>> \in Occupied(tet) THEN tet.type + 1 ELSE b[y][x]]]

\* C18: hardDrop lowers the piece by the largest d that keeps every position
\* on the way valid, with x and rotation as they were, adds 2 * d to the
\* score for the drop, and places the piece, clears the lines and spawns the
\* next piece in the same call.
HardDropLands ==
    [][ghost.op = "init" /\ ghost'.op = "play" /\ ghost'.turn = "none" =>
          LET d == MaxDrop(currentTetrimino, board)
              landed == [currentTetrimino EXCEPT !.y = @ + d]
          IN  /\ ghost'.nPlaced = 1
              /\ board' = Compacted(PlacedOn(board, landed))
              /\ ScoreDelta = 2 * d + (IF ClearedNow > 0 THEN linesClearedScore' ELSE 0)
              /\ currentTetrimino' = SpawnPosition(nextTetrimino)]_vars

\* A piece has been dropped eighteen rows to the floor with no line cleared.
DroppedToFloor ==
    /\ ghost.op = "play" /\ ghost.nPlaced = 1
    /\ scoreValue = 36 /\ linesCleared = 0
    /\ \E x \in 0..(BOARD_WIDTH - 1) : board[BOARD_HEIGHT - 1][x] # 0

\* C20: a call that locks a piece, by the lock test of update or by a hard
\* drop, runs place, clear, spawn in this order; after it the current piece
\* has the type of the former next piece, next and next1 have moved up by
\* one, and next2 is a newly drawn type in 0..6.
LockRunsPlaceClearSpawn ==
    [][ghost'.nPlaced >= 1 =>
          /\ ghost'.nPlaced = 1
          /\ ghost'.order = << "place", "clear", "spawn" >>
          /\ currentTetrimino'.type = nextTetrimino
          /\ nextTetrimino' = nextTetrimino1
          /\ nextTetrimino1' = nextTetrimino2
          /\ nextTetrimino2' \in 0..6
          /\ ghost'.nDrawn = 1]_vars

\* The lock test of update has locked an O piece, the O piece that was next
\* is current and the new next2 is a T piece.
QueueMovedUpByGravityLock ==
    /\ ghost.byGravity /\ ghost.nPlaced = 1
    /\ ghost.order = << "place", "clear", "spawn" >>
    /\ currentTetrimino = SpawnPosition(3)
    /\ nextTetrimino2 = 5
    /\ \E y \in 0..(BOARD_HEIGHT - 1), x \in 0..(BOARD_WIDTH - 1) : board[y][x] = 4

\* ------------------------------------------------------------------ hold
\* C21: a hold that passes the hasSwapped gate puts the type of the current
\* piece into the hold slot; with an empty slot the new current piece comes
\* from the queue shift, with an occupied slot the held type becomes current
\* at rotation 0 and at the x and y of a fresh spawn of that type, and the
\* queue is unchanged.
HoldSwapsAtSpawn ==
    [][~paused /\ ~gameOver /\ ~hasSwapped /\ hasSwapped' =>
          /\ storedTetrimino' = currentTetrimino.type
          /\ IF storedTetrimino = -1
             THEN /\ currentTetrimino' = SpawnPosition(nextTetrimino)
                  /\ nextTetrimino' = nextTetrimino1
                  /\ nextTetrimino1' = nextTetrimino2
             ELSE /\ currentTetrimino' = SpawnPosition(storedTetrimino)
                  /\ UNCHANGED << nextTetrimino, nextTetrimino1, nextTetrimino2 >>]_vars

\* ------------------------------------------------------ failed attempts
\* What a failed attempt leaves alone in any case.
AttemptFrame ==
    << currentTetrimino, board, scoreValue, fallCounter, lockDelayCounter,
       lockDelayMoves, timeSinceLastRotationOrMove >>

ResetGivesFreshRound ==
    [][ghost'.resets = ghost.resets + 1 =>
          /\ \A y \in 0..(BOARD_HEIGHT - 1) : \A x \in 0..(BOARD_WIDTH - 1) :
                 board'[y][x] = 0
          /\ scoreValue' = 0 /\ linesCleared' = 0 /\ level' = 1
          /\ storedTetrimino' = -1 /\ ~hasSwapped'
          /\ ~gameOver' /\ ~paused'
          /\ ~previousClearWasTetris' /\ ~previousClearWasTSpin'
          /\ backToBackCount' = 1
          /\ currentTetrimino' = SpawnPosition(nextTetrimino)
          /\ isPositionValid(currentTetrimino', board')
          /\ maxHighScore' = maxHighScore]_vars

\* A round restarted after a game that had scored, the high score kept.
RestartedWithHighScore ==
    /\ ghost.op = "reset" /\ ghost.resets >= 1
    /\ scoreValue = 0 /\ maxHighScore > 0
    /\ ~gameOver /\ ~paused

PlacementOnlyOnEmpty == ~ghost.overwrote

\* --------------------------------------------------- kicked-up pieces
\* C26: a piece that a rotation has kicked upwards and that rests on nothing
\* is not treated as grounded: the rotation consumes no lockDelayMoves
\* credit for it.
KickedUpNotGrounded ==
    [][/\ ghost'.turn = "kicked" /\ pieceWasKickedUp'
       /\ ghost'.locks = ghost.locks
       /\ ~Resting(currentTetrimino', board')
       => lockDelayMoves' = lockDelayMoves]_vars

\* C27: directly after a placement lastWallKickApplied and pieceWasKickedUp
\* are both false.
PlacementClearsKickFlags ==
    ghost.nPlaced > 0 => ~lastWallKickApplied /\ ~pieceWasKickedUp

\* C28: a lock that does not end the game leaves fallCounter, lockDelayCounter
\* and lockDelayMoves at 0 and hasSwapped false.
LockResetsDelays ==
    ghost.nPlaced > 0 /\ ~gameOver =>
        /\ fallCounter = 0 /\ lockDelayCounter = 0 /\ lockDelayMoves = 0
        /\ ~hasSwapped

\* ------------------------------------------------------ kick candidates
\* The offsets a rotation from previousRotation to newRotation tries, in
\* order: none, the row of the kick table, the fallback offsets.
KickCandidates(type, previousRotation, newRotation) ==
    LET clockwise == newRotation = (previousRotation + 3) % 4
        row == (IF clockwise THEN previousRotation ELSE newRotation) + 1
    IN  << <<0, 0>> >>
        \o (IF type = 0 THEN wallKicksI ELSE wallKicksJLSTZ)[row]
        \o (IF type = 0 THEN extraKicksI ELSE extraKicksJLSTZ)

\* The first candidate offset that gives tet, turned to newRotation, a valid
\* position on b; <<>> when none does.
AcceptedOffset(tet, newRotation, b) ==
    LET cands == KickCandidates(tet.type, tet.rotation, newRotation)
        Fits(i) == isPositionValid([tet EXCEPT !.rotation = newRotation,
                                               !.x = @ + cands[i][1],
                                               !.y = @ + cands[i][2]], b)
        Pick(fits) ==
            IF fits = {} THEN <<>>
            ELSE cands[CHOOSE i \in fits : \A j \in fits : i <= j]
    IN  Bind({ i \in 1..Len(cands) : Fits(i) }, Pick)

TSpinJudgedAtPlacement ==
    [][ghost'.nPlaced = 1 /\ ClearedNow \in 1..2 =>
          LET landed == [currentTetrimino EXCEPT
                            !.y = @ + MaxDrop(currentTetrimino, board)]
              tSpin == isTSpin([currentTetrimino |-> landed,
                                board |-> PlacedOn(board, landed),
                                lastWallKickApplied |-> lastWallKickApplied])
              bonus == tSpin /\ (previousClearWasTetris \/ previousClearWasTSpin)
              base == TableBase(ClearedNow, tSpin)
          IN  linesClearedScore' =
                  (IF bonus THEN (base * 15) \div 10 ELSE base) * level]_vars

\* -------------------------------------------------------------- gravity
\* C31: one update moves an unobstructed piece down one row for every full
\* fall interval contained in the accumulated fallCounter.
GravityCatchesUp ==
    [][ghost'.due >= getFallSpeed(level) =>
          LET k == ghost'.due \div getFallSpeed(level)
          IN  (\A d \in 1..k :
                  isPositionValid([currentTetrimino EXCEPT !.y = @ + d], board))
              => currentTetrimino' = [currentTetrimino EXCEPT !.y = @ + k]]_vars

\* ------------------------------------------------------ soft-drop points
\* C32: a lock by the lock timer that does not end the game adds, besides
\* the points of the lines it clears, one point per row that the locked
\* piece itself went down by successful calls of move(0, 1).
SoftDropPaysOwnRows ==
    [][ghost'.byGravity /\ ~gameOver' =>
          ScoreDelta = ghost.fallen
                       + (IF ClearedNow > 0 THEN linesClearedScore' ELSE 0)]_vars

\* --------------------------------------------------------- render pass
\* C33: the board and the piece that one draw has read come from one state
\* of the engine between two operations: the state before the hard drop, or
\* the state after it.
DrawSeesSnapshot ==
    ghost.threads.dpc = "done" /\ ghost.threads.before # <<>> =>
        \/ << ghost.threads.seenBoard, ghost.threads.seenPiece >>
              = << [y \in 1..BOARD_HEIGHT |-> ghost.threads.before[1][y - 1]],
                   ghost.threads.before[2] >>
        \/ /\ ghost.threads.epc = "done"
           /\ ghost.threads.seenBoard = [y \in 1..BOARD_HEIGHT |-> board[y - 1]]
           /\ ghost.threads.seenPiece = currentTetrimino

\* C38: draw and a lock never wait for each other: draw holding boardMutex
\* and waiting for particleMutex while clearLines holds particleMutex and
\* waits for boardMutex.
DrawAndLockNeverBlocked ==
    ~(/\ ghost.threads.dpc = "lockP" /\ ghost.threads.boardMutex = "draw"
      /\ ghost.threads.epc = "clearB" /\ ghost.threads.particleMutex = "engine")

\* ---------------------------------------------------------------- shapes
\* C34: the index at which a shape loop reads the 16-cell mask lies in 0..15.
MaskIndexInRange ==
    ghost.probe.step = "read" => ghost.probe.index \in 0..15

\* C40: for every type and rotation exactly 4 box cells are mapped to an
\* occupied mask cell, and for the O piece they are the cells of rotation 0.
FourCellsEachRotation ==
    ghost.probe.step = "counted" =>
        /\ Cardinality(ghost.probe.occupied) = 4
        /\ ghost.probe.occupied \subseteq (0..3) \X (0..3)
        /\ currentTetrimino.type = 3 =>
               ghost.probe.occupied = {<<0, 0>>, <<0, 1>>, <<1, 0>>, <<1, 1>>}

\* The cells of the O piece at rotation 3 have been gone through.
CountedTurnedPieces ==
    /\ ghost.probe.step = "counted"
    /\ currentTetrimino.type = 3
    /\ currentTetrimino.rotation = 3
    /\ Cardinality(ghost.probe.occupied) = 4

\* ------------------------------------------------------- piece in play
\* C35: between operations, while the game is not over, the current piece is
\* in a valid position: every occupied cell has x in 0..9 and y < 20 and
\* none with y >= 0 lies on a non-empty board cell.
PieceInPlayValid ==
    ~gameOver => isPositionValid(currentTetrimino, board)

\* --------------------------------------------------------- floor test
\* C36: every read of the board that isOnFloor makes has its row in 0..19
\* and its column in 0..9.
OnFloorReadsInsideBoard ==
    ~ghost.oobRead

\* ----------------------------------------------------------- high score
\* C37: maxHighScore is never below the score, also directly after a save
\* has been loaded.
HighScoreCoversScore ==
    maxHighScore >= scoreValue

\* ------------------------------------------------------------ full rows
\* C39: after every lock sequence no row of the board has all 10 cells
\* occupied, and the lock has cleared between 0 and 4 rows.
NoFullRowAfterLock ==
    [][ghost'.nPlaced > 0 =>
          /\ FullRows(board') = {}
          /\ ClearedNow \in 0..4]_vars

\* A lock has just cleared four rows at once.
FourRowsClearedByLock ==
    /\ ghost.nPlaced > 0
    /\ linesClearedScore = 800 * level
    /\ linesCleared >= 4
    /\ FullRows(board) = {}

====
